---------------------------- MODULE Spec2Model ----------------------------
(* Model of the activation-report bot (src/index.js): the message handler   *)
(* bot.on('message'), its helpers and the record store it reads and writes. *)
(* A string is a sequence of one-character strings, so that toUpperCase,    *)
(* trim, includes, split and the regular expressions of the source are      *)
(* computed character by character.                                          *)
EXTENDS Integers, Sequences, FiniteSets, TLC

-----------------------------------------------------------------------------
(* Characters and the JavaScript string methods the source uses.            *)

LowerLetters ==
  <<"a", "b", "c", "d", "e", "f", "g", "h", "i", "j", "k", "l", "m",
    "n", "o", "p", "q", "r", "s", "t", "u", "v", "w", "x", "y", "z">>

UpperLetters ==
  <<"A", "B", "C", "D", "E", "F", "G", "H", "I", "J", "K", "L", "M",
    "N", "O", "P", "Q", "R", "S", "T", "U", "V", "W", "X", "Y", "Z">>

Lowers == {LowerLetters[i] : i \in 1..26}

Uppers == {UpperLetters[i] : i \in 1..26}

Digits == {"0", "1", "2", "3", "4", "5", "6", "7", "8", "9"}

\* \s of the regular expressions and the characters trim() removes
WhiteSpace == {" ", "\n"}

Alphabet == Lowers \cup Uppers \cup Digits \cup WhiteSpace \cup ({":", "|", "/", "@", "_", "-", ","})

UpperOf ==
  [c \in Alphabet |->
     IF c \in Lowers
       THEN UpperLetters[CHOOSE i \in 1..26 : LowerLetters[i] = c]
       ELSE c]

LowerOf ==
  [c \in Alphabet |->
     IF c \in Uppers
       THEN LowerLetters[CHOOSE i \in 1..26 : UpperLetters[i] = c]
       ELSE c]

toUpperCase(s) == [i \in 1..Len(s) |-> UpperOf[s[i]]]

toLowerCase(s) == [i \in 1..Len(s) |-> LowerOf[s[i]]]

RECURSIVE trimStart(_)
trimStart(s) ==
  IF s # <<>> /\ Head(s) \in WhiteSpace THEN trimStart(Tail(s)) ELSE s

RECURSIVE trimEnd(_)
trimEnd(s) ==
  IF s # <<>> /\ s[Len(s)] \in WhiteSpace
    THEN trimEnd(SubSeq(s, 1, Len(s) - 1))
    ELSE s

trim(s) == trimEnd(trimStart(s))

startsWith(s, prefix) ==
  Len(prefix) <= Len(s) /\ SubSeq(s, 1, Len(prefix)) = prefix

Min(S) == CHOOSE x \in S : \A y \in S : x <= y

\* String.prototype.indexOf from position i, 1-based; 0 when sub does not
\* occur in s
MinOrZero(S) == IF S = {} THEN 0 ELSE Min(S)

indexFrom(s, sub, i) ==
  MinOrZero({j \in i..(Len(s) - Len(sub) + 1) : SubSeq(s, j, j + Len(sub) - 1) = sub})

includes(s, sub) == indexFrom(s, sub, 1) # 0

\* s.replace('@', ''): a string pattern replaces the first occurrence only
RemoveAt(s, i) ==
  IF i = 0 THEN s ELSE SubSeq(s, 1, i - 1) \o SubSeq(s, i + 1, Len(s))

replaceFirst(s, c) == RemoveAt(s, indexFrom(s, <<c>>, 1))

\* s.split(c): the pieces between the occurrences of the character c
RECURSIVE split(_, _)
RECURSIVE splitAt(_, _, _)
split(s, c) == splitAt(s, c, indexFrom(s, <<c>>, 1))

\* the pieces of s, whose first occurrence of c is at position i (0: none)
splitAt(s, c, i) ==
  IF i = 0 THEN <<s>>
  ELSE <<SubSeq(s, 1, i - 1)>> \o split(SubSeq(s, i + 1, Len(s)), c)

RECURSIVE join(_, _)
join(parts, c) ==
  IF parts = <<>> THEN <<>>
  ELSE IF Len(parts) = 1 THEN parts[1]
  ELSE parts[1] \o <<c>> \o join(Tail(parts), c)

-----------------------------------------------------------------------------
(* Regular expressions. Every pattern of the source is a sequence of items: *)
(* a quantified character class (greedy or lazy, inside the capture group   *)
(* or not) or an anchor (^, $, \b). Matching is the backtracking search of  *)
(* the JavaScript engine: leftmost start, and per item the repetition       *)
(* counts in priority order.                                                 *)

Alnum == Lowers \cup Uppers \cup Digits

WordChars == Alnum \cup {"_"}

Rep(set, lo, hi) ==
  [t |-> "cls", set |-> set, str |-> <<>>, min |-> lo, max |-> hi,
   lazy |-> FALSE, cap |-> FALSE]

One(set) == Rep(set, 1, 1)

\* max = -1 stands for an unbounded repetition
Star(set) == Rep(set, 0, -1)

Plus(set) == Rep(set, 1, -1)

AtLeast(set, lo) == Rep(set, lo, -1)

Lazy(item) == [item EXCEPT !.lazy = TRUE]

Cap(item) == [item EXCEPT !.cap = TRUE]

Anchor(kind) ==
  [t |-> kind, set |-> {}, str |-> <<>>, min |-> 0, max |-> 0,
   lazy |-> FALSE, cap |-> FALSE]

Bol == Anchor("bol")

WordBoundary == Anchor("wb")

\* a literal, case-sensitive
Lit(str) == <<[Anchor("lit") EXCEPT !.str = str]>>

\* a literal under the i flag: compared in upper case
LitI(str) == <<[Anchor("liti") EXCEPT !.str = toUpperCase(str)]>>

NoMatch == [ok |-> FALSE, end |-> 0, cap |-> <<>>]

\* n capped by the largest repetition count max of an item
Capped(n, max) == IF max >= 0 /\ n > max THEN max ELSE n

\* the number of characters of the class from position pos on, at most max
RunLen(s, pos, set, max) ==
  Capped(Min({j \in pos..Len(s) : s[j] \notin set} \cup {Len(s) + 1}) - pos, max)

LitEquals(sub, it) ==
  IF it.t = "liti" THEN toUpperCase(sub) = it.str ELSE sub = it.str

LitAt(s, pos, it) ==
  /\ pos + Len(it.str) - 1 <= Len(s)
  /\ LitEquals(SubSeq(s, pos, pos + Len(it.str) - 1), it)

IsWordAt(s, pos) == pos >= 1 /\ pos <= Len(s) /\ s[pos] \in WordChars

\* the match r of the rest of a pattern, with the text an item of the
\* capture group took put in front of its capture
Captured(r, cap, taken) ==
  IF r.ok /\ cap THEN [r EXCEPT !.cap = taken \o @] ELSE r

RECURSIVE MatchFrom(_, _, _, _)
RECURSIVE Counts(_, _, _, _, _)
RECURSIVE TryCounts(_, _, _, _, _, _)
RECURSIVE TryNext(_, _, _, _, _, _, _)
\* items k.. of pattern p matched at position pos of s
MatchFrom(p, k, s, pos) ==
  IF k > Len(p) THEN [ok |-> TRUE, end |-> pos, cap |-> <<>>]
  ELSE IF p[k].t = "bol"
    THEN IF pos = 1 THEN MatchFrom(p, k + 1, s, pos) ELSE NoMatch
  ELSE IF p[k].t = "eol"
    THEN IF pos = Len(s) + 1 THEN MatchFrom(p, k + 1, s, pos) ELSE NoMatch
  ELSE IF p[k].t = "wb"
    THEN IF IsWordAt(s, pos - 1) # IsWordAt(s, pos)
           THEN MatchFrom(p, k + 1, s, pos)
           ELSE NoMatch
  ELSE IF p[k].t \in {"lit", "liti"}
    THEN IF LitAt(s, pos, p[k])
           THEN Captured(MatchFrom(p, k + 1, s, pos + Len(p[k].str)), p[k].cap,
                         SubSeq(s, pos, pos + Len(p[k].str) - 1))
           ELSE NoMatch
  ELSE Counts(p, k, s, pos, RunLen(s, pos, p[k].set, p[k].max))

\* item k, a class of which n characters stand at pos
Counts(p, k, s, pos, n) ==
  IF n < p[k].min THEN NoMatch
  ELSE TryCounts(p, k, s, pos, IF p[k].lazy THEN p[k].min ELSE n, n)

\* item k taking c characters, then c-1, ... (greedy) or c+1, ... (lazy)
TryCounts(p, k, s, pos, c, n) ==
  IF c < p[k].min \/ c > n THEN NoMatch
  ELSE TryNext(p, k, s, pos, c, n, MatchFrom(p, k + 1, s, pos + c))

\* r: the match of the rest after item k took c characters
TryNext(p, k, s, pos, c, n, r) ==
  IF r.ok THEN Captured(r, p[k].cap, SubSeq(s, pos, pos + c - 1))
  ELSE TryCounts(p, k, s, pos, IF p[k].lazy THEN c + 1 ELSE c - 1, n)

NoExec == [ok |-> FALSE, start |-> 0, end |-> 0, cap |-> <<>>]

ExecResult(start, r) == [ok |-> TRUE, start |-> start, end |-> r.end, cap |-> r.cap]

\* the match at the leftmost of the positions where the pattern matches
ExecAt(p, s, starts) ==
  IF starts = {} THEN NoExec
  ELSE ExecResult(Min(starts), MatchFrom(p, 1, s, Min(starts)))

\* RegExp.prototype.exec from position i: the leftmost match
ExecFrom(p, s, i) ==
  ExecAt(p, s, {j \in i..(Len(s) + 1) : MatchFrom(p, 1, s, j).ok})

\* s.match(p) without the g flag
Exec(p, s) == ExecFrom(p, s, 1)

\* p.test(s)
Test(p, s) == Exec(p, s).ok

\* s.match(p) with the g flag: the matched substrings, left to right
RECURSIVE MatchAllFrom(_, _, _)
RECURSIVE MatchAllNext(_, _, _)
MatchAllFrom(p, s, i) == MatchAllNext(p, s, ExecFrom(p, s, i))

\* r: the match found; the search goes on behind it
MatchAllNext(p, s, r) ==
  IF ~r.ok THEN <<>>
  ELSE <<SubSeq(s, r.start, r.end - 1)>>
         \o MatchAllFrom(p, s, IF r.end = r.start THEN r.end + 1 ELSE r.end)

MatchAll(p, s) == MatchAllFrom(p, s, 1)

\* s.replace(p, '') for the match r of p in s: the first match removed
RemoveMatch(s, r) ==
  IF ~r.ok THEN s ELSE SubSeq(s, 1, r.start - 1) \o SubSeq(s, r.end, Len(s))

-----------------------------------------------------------------------------
(* String literals of the source.                                            *)

sAO == <<"A", "O">>

sWORKORDER == <<"W", "O", "R", "K", "O", "R", "D", "E", "R">>

sWORKZONE == <<"W", "O", "R", "K", "Z", "O", "N", "E">>

sONT == <<"O", "N", "T">>

sNIK == <<"N", "I", "K">>

sSTB == <<"S", "T", "B">>

sOWNER == <<"O", "W", "N", "E", "R">>

sSC == <<"S", "C">>

sWMS == <<"W", "M", "S">>

sTSEL == <<"T", "S", "E", "L">>

sBGES == <<"B", "G", "E", "S">>

-----------------------------------------------------------------------------
(* parseAktivasi: the multi-format extraction of the /aktivasi payload.      *)

\* \s*:\s*
ColonSep == <<Star(WhiteSpace), One({":"}), Star(WhiteSpace)>>

\* [:\s]+
ColonOrSpace == <<Plus({":"} \cup WhiteSpace)>>

\* findValue: the first pattern whose capture group is non-empty, trimmed.
\* No caller passes a pattern with the g flag.
RECURSIVE findValue(_, _)
RECURSIVE findNext(_, _, _)
findValue(text, patterns) ==
  IF patterns = <<>> THEN <<>>
  ELSE findNext(text, patterns, Exec(Head(patterns), text))

\* matches: the match of the first pattern
findNext(text, patterns, matches) ==
  IF matches.ok /\ matches.cap # <<>> THEN trim(matches.cap)
  ELSE findValue(text, Tail(patterns))

\* a in place of a || b
OrElseNothing(a, b) == a

\* a || b on strings: the empty string is falsy
OrElse(a, b) == IF a # <<>> THEN a ELSE b

detectUpperBgesFirst(upperText) ==
  IF includes(upperText, <<"I", "N", "D", "I", "B", "I", "Z">>) \/ includes(upperText, <<"H", "S", "I">>)
    THEN sBGES
  ELSE IF includes(upperText, <<"C", "H", "A", "N", "N", "E", "L", " ", ":", " ", "D", "I", "G", "I", "P", "O", "S">>)
       \/ includes(upperText, <<"D", "A", "T", "E", " ", "C", "R", "E", "A", "T", "E", "D">>)
       \/ includes(upperText, <<"W", "O", "R", "K", "O", "R", "D", "E", "R", " ", ":", " ", "W", "O">>)
    THEN sTSEL
  ELSE IF includes(upperText, sWMS) \/ includes(upperText, <<"M", "W", "S">>)
    THEN sWMS
  ELSE <<>>

\* detectOwner on the upper-cased text
detectUpper(upperText) ==
  IF includes(upperText, <<"C", "H", "A", "N", "N", "E", "L", " ", ":", " ", "D", "I", "G", "I", "P", "O", "S">>)
       \/ includes(upperText, <<"D", "A", "T", "E", " ", "C", "R", "E", "A", "T", "E", "D">>)
       \/ includes(upperText, <<"W", "O", "R", "K", "O", "R", "D", "E", "R", " ", ":", " ", "W", "O">>)
    THEN sTSEL
  ELSE IF includes(upperText, <<"I", "N", "D", "I", "B", "I", "Z">>) \/ includes(upperText, <<"H", "S", "I">>)
    THEN sBGES
  ELSE IF includes(upperText, sWMS) \/ includes(upperText, <<"M", "W", "S">>)
    THEN sWMS
  ELSE <<>>

detectOwner(text) == detectUpper(toUpperCase(text))

\* the serial-number brand prefixes, /(ZTEG[A-Z0-9]+)/i and the like
BrandPattern(prefix) == <<Cap(LitI(prefix)[1]), Cap(Plus(Alnum))>>

EmptyRecord ==
  [ao |-> <<>>, workorder |-> <<>>, serviceNo |-> <<>>, customerName |-> <<>>,
   owner |-> <<>>, workzone |-> <<>>, snOnt |-> <<>>, nikOnt |-> <<>>,
   stbId |-> <<>>, nikStb |-> <<>>, teknisi |-> <<>>]

\* the TSEL branch, for the AO found and the match of the STB ID pattern
tselRecord(text, ao, stbMatch) ==
  [EmptyRecord EXCEPT
     !.owner = sTSEL,
     !.ao = ao,
     !.workorder =
        OrElse(findValue(text,
                 <<LitI(sWORKORDER) \o ColonSep \o <<Cap(Plus(Alnum))>>>>),
               ao),
     !.serviceNo =
        findValue(text,
          <<LitI(<<"S", "E", "R", "V", "I", "C", "E">>) \o <<Star(WhiteSpace)>> \o LitI(<<"N", "O">>)
              \o ColonSep \o <<Cap(Plus(Digits))>>>>),
     !.customerName =
        findValue(text,
          <<LitI(<<"C", "U", "S", "T", "O", "M", "E", "R">>) \o <<Star(WhiteSpace)>> \o LitI(<<"N", "A", "M", "E">>)
              \o ColonSep \o <<Cap(Plus(Alnum \cup WhiteSpace))>>>>),
     !.workzone =
        findValue(text,
          <<LitI(sWORKZONE) \o ColonSep \o <<Cap(Plus(Alnum))>>>>),
     !.snOnt =
        findValue(text,
          <<LitI(<<"S", "N">>) \o <<Star(WhiteSpace)>> \o LitI(sONT)
              \o ColonSep \o <<Cap(Plus(Alnum))>>,
            BrandPattern(<<"Z", "T", "E", "G", "D", "A">>), BrandPattern(<<"H", "W", "T", "C">>), BrandPattern(<<"H", "U", "A", "W">>),
            BrandPattern(<<"F", "H", "T", "T">>), BrandPattern(<<"F", "I", "B", "R">>)>>),
     !.nikOnt =
        findValue(text,
          <<LitI(sNIK) \o <<Star(WhiteSpace)>> \o LitI(sONT)
              \o ColonSep \o <<Cap(Plus(Digits))>>>>),
     !.stbId = IF stbMatch.ok /\ stbMatch.cap # <<>> THEN stbMatch.cap ELSE <<>>,
     !.nikStb =
        IF stbMatch.ok /\ stbMatch.cap # <<>>
          THEN findValue(text,
                 <<LitI(sNIK) \o <<Star(WhiteSpace)>> \o LitI(sSTB)
                     \o ColonSep \o <<Cap(Plus(Digits))>>>>)
          ELSE <<>>]

parseTSEL(text) ==
  tselRecord(text,
    findValue(text,
      <<LitI(sAO) \o ColonSep \o <<Cap(Plus(Alnum))>>,
        LitI(sAO) \o <<Star(WhiteSpace), Cap(Plus(Alnum))>>>>),
    Exec(LitI(sSTB) \o <<Star(WhiteSpace)>> \o LitI(<<"I", "D">>)
           \o ColonSep \o <<Cap(Plus(Alnum))>>, text))

\* /\d{2}\/\d{2}\/\d{4}\s+\d{2}:\d{2}\s+\d+\s+([A-Z0-9\s]+?)\s{2,}/
CustomerPattern ==
  <<Rep(Digits, 2, 2), One({"/"}), Rep(Digits, 2, 2), One({"/"}),
    Rep(Digits, 4, 4), Plus(WhiteSpace), Rep(Digits, 2, 2), One({":"}),
    Rep(Digits, 2, 2), Plus(WhiteSpace), Plus(Digits), Plus(WhiteSpace),
    Cap(Lazy(Plus(Uppers \cup Digits \cup WhiteSpace))),
    AtLeast(WhiteSpace, 2)>>

\* /AO\|\s+([A-Z]{2,})/
WorkzonePattern ==
  Lit(sAO) \o <<One({"|"}), Plus(WhiteSpace), Cap(AtLeast(Uppers, 2))>>

\* matches[0] in place of matches[matches.length - 1]
FirstOf(seq) == seq[1]

LastOf(seq) == seq[Len(seq)]

\* the shared serial-number patterns of the BGES/WMS and manual branches
SnOntPatterns ==
  <<LitI(<<"S", "N">>) \o <<Star(WhiteSpace)>> \o LitI(sONT)
      \o ColonOrSpace \o <<Cap(Plus(Alnum))>>,
    BrandPattern(<<"Z", "T", "E", "G">>), BrandPattern(<<"H", "W", "T", "C">>), BrandPattern(<<"H", "U", "A", "W">>),
    BrandPattern(<<"F", "H", "T", "T">>), BrandPattern(<<"F", "I", "B", "R">>)>>

NikOntPattern ==
  LitI(sNIK) \o <<Star(WhiteSpace)>> \o LitI(sONT)
    \o ColonOrSpace \o <<Cap(Plus(Digits))>>

StbIdPattern ==
  LitI(sSTB) \o <<Star(WhiteSpace)>> \o LitI(<<"I", "D">>)
    \o ColonOrSpace \o <<Cap(Plus(Alnum))>>

NikStbPattern ==
  LitI(sNIK) \o <<Star(WhiteSpace)>> \o LitI(sSTB)
    \o ColonOrSpace \o <<Cap(Plus(Digits))>>

\* the pattern matched again, without the g flag, on the last match
execLast(p, matches) == IF matches # <<>> THEN Exec(p, LastOf(matches)) ELSE NoExec

\* the pattern matched again, without the g flag, on the first match
execFirst(p, matches) == IF matches # <<>> THEN Exec(p, matches[1]) ELSE NoExec

\* the capture group of a match, '' without one
captureOf(m) == IF m.ok /\ m.cap # <<>> THEN m.cap ELSE <<>>

\* `SC${scMatch[1]}` of the last AO match
scNumberOf(scMatch) == IF scMatch.ok THEN sSC \o scMatch.cap ELSE <<>>

\* the BGES and WMS branch, for the AO found
bgesRecord(text, owner, ao) ==
  [EmptyRecord EXCEPT
     !.owner = owner,
     !.ao = ao,
     !.workorder = ao,
     \* matches[matches.length - 1] of a non-empty list of matches, else ''
     !.serviceNo =
        IF MatchAll(<<WordBoundary, Rep(Digits, 11, 12), WordBoundary>>, text) # <<>>
          THEN LastOf(MatchAll(<<WordBoundary, Rep(Digits, 11, 12), WordBoundary>>, text))
          ELSE <<>>,
     !.customerName =
        trim(captureOf(execFirst(CustomerPattern, MatchAll(CustomerPattern, text)))),
     !.workzone =
        captureOf(execLast(WorkzonePattern, MatchAll(WorkzonePattern, text))),
     !.snOnt = findValue(text, SnOntPatterns),
     !.nikOnt = findValue(text, <<NikOntPattern>>),
     !.stbId = findValue(text, <<StbIdPattern>>),
     !.nikStb = findValue(text, <<NikStbPattern>>)]

parseBGESWMS(text, owner) ==
  bgesRecord(text, owner,
             scNumberOf(execLast((Lit(sSC) \o <<Cap(AtLeast(Digits, 6))>>), MatchAll((Lit(sAO) \o <<One({"|"}), Lazy(Star(Alphabet \ {"\n"}))>> \o Lit(sSC) \o <<AtLeast(Digits, 6)>>), text))))

\* text.split('\n').map(l => l.trim()).filter(l => l)
RECURSIVE TrimmedNonEmpty(_)
TrimmedNonEmpty(parts) ==
  IF parts = <<>> THEN <<>>
  ELSE IF trim(Head(parts)) = <<>> THEN TrimmedNonEmpty(Tail(parts))
  ELSE <<trim(Head(parts))>> \o TrimmedNonEmpty(Tail(parts))

linesOf(text) == TrimmedNonEmpty(split(text, "\n"))

\* getValue: the text after the first colon of the first line that starts
\* with "<LABEL> :", trimmed
RECURSIVE getValueIn(_, _)
getValueIn(lines, label) ==
  IF lines = <<>> THEN <<>>
  ELSE IF startsWith(toUpperCase(Head(lines)), toUpperCase(label) \o <<" ", ":">>)
    THEN trim(join(Tail(split(Head(lines), ":")), ":"))
  ELSE getValueIn(Tail(lines), label)

getValue(text, label) == getValueIn(linesOf(text), label)

\* the label-based fallback branch
parseManual(text) ==
  [EmptyRecord EXCEPT
     !.ao = OrElse(getValue(text, sAO),
              findValue(text, <<LitI(sAO) \o ColonOrSpace \o <<Cap(Plus(Alnum))>>>>)),
     !.workorder = OrElse(getValue(text, sWORKORDER),
              findValue(text, <<LitI(sWORKORDER) \o ColonOrSpace
                                  \o <<Cap(Plus(Alnum \cup {"-"}))>>>>)),
     !.serviceNo = OrElse(getValue(text, <<"S", "E", "R", "V", "I", "C", "E", " ", "N", "O">>),
              findValue(text, <<LitI(<<"S", "E", "R", "V", "I", "C", "E">>) \o <<Star(WhiteSpace)>> \o LitI(<<"N", "O">>)
                                  \o ColonOrSpace \o <<Cap(Plus(Digits))>>>>)),
     !.customerName = OrElse(getValue(text, <<"C", "U", "S", "T", "O", "M", "E", "R", " ", "N", "A", "M", "E">>),
              findValue(text, <<LitI(<<"C", "U", "S", "T", "O", "M", "E", "R">>) \o <<Star(WhiteSpace)>> \o LitI(<<"N", "A", "M", "E">>)
                                  \o ColonOrSpace
                                  \o <<Cap(Plus(Alphabet \ {"\n"}))>>>>)),
     !.owner = OrElse(getValue(text, sOWNER),
              findValue(text, <<LitI(sOWNER) \o ColonOrSpace \o <<Cap(Plus(Alnum))>>>>)),
     !.workzone = OrElse(getValue(text, sWORKZONE),
              findValue(text, <<LitI(sWORKZONE) \o ColonOrSpace
                                  \o <<Cap(Plus(Alnum))>>>>)),
     !.snOnt = OrElse(getValue(text, <<"S", "N", " ", "O", "N", "T">>), findValue(text, SnOntPatterns)),
     !.nikOnt = OrElse(getValue(text, <<"N", "I", "K", " ", "O", "N", "T">>), findValue(text, <<NikOntPattern>>)),
     !.stbId = OrElse(getValue(text, <<"S", "T", "B", " ", "I", "D">>), findValue(text, <<StbIdPattern>>)),
     !.nikStb = OrElse(getValue(text, <<"N", "I", "K", " ", "S", "T", "B">>), findValue(text, <<NikStbPattern>>))]

\* the cell at JavaScript index j of a sheet row, or '' when it is absent:
\* (row[j] || '')
Cell(row, j) == IF j + 1 <= Len(row) THEN row[j + 1] ELSE <<>>

\* the extraction of one payload, for the user row and the sender's username
\* the branch of the extraction that the detected owner selects
parseBranch(text, owner) ==
  IF owner = sTSEL THEN parseTSEL(text)
  ELSE IF owner = sBGES \/ owner = sWMS THEN parseBGESWMS(text, owner)
  ELSE parseManual(text)

parseAktivasi(text, userRow, username) ==
  [parseBranch(text, detectOwner(text)) EXCEPT
     !.teknisi = replaceFirst(OrElse(Cell(userRow, 1), username), "@")]

-----------------------------------------------------------------------------
(* The helpers of the message handler.                                       *)

cmdExportcari == <<"/", "e", "x", "p", "o", "r", "t", "c", "a", "r", "i">>

cmdPs == <<"/", "p", "s">>

cmdWeekly == <<"/", "w", "e", "e", "k", "l", "y">>

cmdMonthly == <<"/", "m", "o", "n", "t", "h", "l", "y">>

cmdTopteknisi == <<"/", "t", "o", "p", "t", "e", "k", "n", "i", "s", "i">>

cmdAllps == <<"/", "a", "l", "l", "p", "s">>

cmdCari == <<"/", "c", "a", "r", "i">>

cmdClear == <<"/", "c", "l", "e", "a", "r">>

cmdHelp == <<"/", "h", "e", "l", "p">>

cmdStart == <<"/", "s", "t", "a", "r", "t">>

cmdAktivasi == <<"/", "a", "k", "t", "i", "v", "a", "s", "i">>

\* /^\/<command>\b/i
CommandPattern(cmd) == <<Bol>> \o LitI(cmd) \o <<WordBoundary>>

\* /^\/<command>/i, an alternative of the exclusion list of the /<username> branch
PrefixPattern(cmd) == <<Bol>> \o LitI(cmd)

\* /^\/[A-Za-z0-9_]+$/
UsernameCommandPattern == <<Bol, One({"/"}), Plus(WordChars), (Anchor("eol"))>>

ReservedPrefixes ==
  {cmdCari, cmdPs, cmdAllps, <<"/", "c", "l", "e", "a", "n">>, cmdClear, cmdHelp, cmdStart, cmdAktivasi,
   cmdExportcari, cmdWeekly, cmdMonthly, cmdTopteknisi}

AdminCommands == {"ps", "weekly", "monthly", "topteknisi", "allps", "username", "clear"}

UserCommands == {"exportcari", "cari", "aktivasi"}

\* the branch of the if / else-if chain of the handler that a message takes
Dispatch(text, chatType) ==
  IF chatType \in {"group", "supergroup"} /\ ~Test(CommandPattern(cmdAktivasi), text)
    THEN "ignored"
  ELSE IF Test(CommandPattern(cmdExportcari), text) THEN "exportcari"
  ELSE IF Test(CommandPattern(cmdPs), text) THEN "ps"
  ELSE IF Test(CommandPattern(cmdWeekly), text) THEN "weekly"
  ELSE IF Test(CommandPattern(cmdMonthly), text) THEN "monthly"
  ELSE IF Test(CommandPattern(cmdTopteknisi), text) THEN "topteknisi"
  ELSE IF Test(CommandPattern(cmdAllps), text) THEN "allps"
  ELSE IF Test(CommandPattern(cmdCari), text) THEN "cari"
  ELSE IF Test(UsernameCommandPattern, text)
            /\ \A c \in ReservedPrefixes : ~Test(PrefixPattern(c), text)
    THEN "username"
  ELSE IF Test(CommandPattern(cmdClear), text) THEN "clear"
  ELSE IF Test(CommandPattern(cmdAktivasi), text) THEN "aktivasi"
  ELSE IF Test(CommandPattern(cmdHelp), text) \/ Test(CommandPattern(cmdStart), text)
    THEN "help"
  ELSE IF startsWith(text, <<"/">>) THEN "unknown"
  ELSE "none"

\* the null of getUserData; a sheet row is never the empty sequence
Null == <<>>

\* getUserData on the rows read from the USER sheet: the first row whose
\* handle equals the username, ignoring case and one "@", with status AKTIF
RECURSIVE findUser(_, _, _)
findUser(data, username, i) ==
  IF i > Len(data) THEN Null
  ELSE IF toLowerCase(replaceFirst(Cell(data[i], 1), "@"))
             = toLowerCase(replaceFirst(username, "@"))
          /\ toUpperCase(Cell(data[i], 3)) = <<"A", "K", "T", "I", "F">>
    THEN data[i]
  ELSE findUser(data, username, i + 1)

\* the loop starts at JavaScript index 1, the row after the header; the read
\* of the USER sheet is inside a try whose catch logs the error and returns null
getUserData(data, ok, username) ==
  IF ok THEN findUser(data, username, 2) ELSE Null

isAdminAnyUser(user) == user # Null

\* isAdmin on the result of getUserData
isAdminUser(user) == user # Null /\ toUpperCase(Cell(user, 2)) = <<"A", "D", "M", "I", "N">>

\* text.replace(/^\/aktivasi\s*/i, '').trim()
inputTextOf(text) ==
  trim(RemoveMatch(text,
         Exec(<<Bol>> \o LitI(cmdAktivasi) \o <<Star(WhiteSpace)>>, text)))

\* the comparison key of the duplicate check and of /clear
NormAO(ao) == trim(toUpperCase(ao))

isDuplicateCaseSensitive(data, ao) ==
  \E i \in 2..Len(data) : trim(Cell(data[i], 1)) = trim(ao)

isDuplicateNever(data, ao) == FALSE

isDuplicateFromHeader(data, ao) ==
  \E i \in 1..Len(data) : NormAO(Cell(data[i], 1)) = NormAO(ao)

\* the duplicate loop of /aktivasi over the rows read from the record sheet
isDuplicate(data, ao) ==
  \E i \in 2..Len(data) : NormAO(Cell(data[i], 1)) = NormAO(ao)

\* the validation of /aktivasi: the names of the missing required fields
missingOf(parsed) == IF parsed.ao = <<>> THEN <<sAO>> ELSE <<>>

\* the loop of /clear over rows i.. of the data read: the rows kept after
\* those already in unique, and the number of rows dropped
RECURSIVE clearFrom(_, _, _, _, _)
RECURSIVE clearStep(_, _, _, _, _, _)
clearFrom(data, i, seen, unique, duplicateCount) ==
  IF i > Len(data) THEN [uniqueData |-> unique, duplicateCount |-> duplicateCount]
  ELSE clearStep(data, i, seen, unique, duplicateCount, NormAO(Cell(data[i], 1)))

\* row i of the loop, ao its key
clearStep(data, i, seen, unique, duplicateCount, ao) ==
  IF ao \notin seen /\ ao # <<>>
    THEN clearFrom(data, i + 1, seen \cup {ao}, Append(unique, data[i]), duplicateCount)
    ELSE clearFrom(data, i + 1, seen, unique, duplicateCount + 1)

\* updateSheetData(sheet, 'A1:L<n>', values): the first n rows are
\* overwritten, the rows below the range are left as they are
updateRange(sheet, values) ==
  [i \in 1..(IF Len(sheet) > Len(values) THEN Len(sheet) ELSE Len(values)) |->
     IF i <= Len(values) THEN values[i] ELSE sheet[i]]

-----------------------------------------------------------------------------
(* Dates, the period filter and the ranking of the reports. Instants are     *)
(* minutes since 1970-01-01T00:00Z; tz is the offset of the host's local     *)
(* time from UTC in minutes, fixed over the period looked at.                *)

\* parseInt of a run of digits
RECURSIVE ToNumber(_)
ToNumber(digits) ==
  IF digits = <<>> THEN 0
  ELSE ToNumber(SubSeq(digits, 1, Len(digits) - 1)) * 10
         + (CHOOSE k \in 0..9 :
              <<"0", "1", "2", "3", "4", "5", "6", "7", "8", "9">>[k + 1] = digits[Len(digits)])

\* the day number of new Date(year, monthIndex, day): the count of days from
\* 1970-01-01 to that calendar date, a monthIndex outside 0..11 and a day
\* outside the month carried over as the Date constructor does, a year
\* 0..99 taken as 1900 + year
DayNumber(year, monthIndex, day) ==
  LET full == IF year \in 0..99 THEN 1900 + year ELSE year
      y == full + (monthIndex \div 12)
      m == (monthIndex % 12) + 1
      y2 == IF m <= 2 THEN y - 1 ELSE y
      yoe == y2 % 400
      doy == (153 * ((m + 9) % 12) + 2) \div 5
  IN (y2 \div 400) * 146097 + yoe * 365 + (yoe \div 4) - (yoe \div 100) + doy
       + day - 1 - 719468

\* <<getFullYear(), getMonth()>> of the date with this day number, whose
\* year is within one of 1970 + dayNumber / 365
MonthOf(dayNumber) ==
  CHOOSE ym \in ((1969 + dayNumber \div 365)..(1971 + dayNumber \div 365)) \X (0..11) :
    /\ DayNumber(ym[1], ym[2], 1) <= dayNumber
    /\ dayNumber < DayNumber(ym[1], ym[2] + 1, 1)

\* parseIndonesianDate: <<the instant>> of the date, <<>> for null and for
\* an Invalid Date, which no comparison holds of. The string given to
\* new Date is a date-only ISO form when the year has four digits and the
\* padded day two; it is then midnight UTC, a day up to 31 carried over
\* into the next month. Other strings are taken as invalid.
parseIndonesianDate(dateStr) ==
  LET parts == split(toLowerCase(dateStr), " ")
      months ==
   <<<<"j", "a", "n", "u", "a", "r", "i">>,
     <<"f", "e", "b", "r", "u", "a", "r", "i">>,
     <<"m", "a", "r", "e", "t">>,
     <<"a", "p", "r", "i", "l">>,
     <<"m", "e", "i">>,
     <<"j", "u", "n", "i">>,
     <<"j", "u", "l", "i">>,
     <<"a", "g", "u", "s", "t", "u", "s">>,
     <<"s", "e", "p", "t", "e", "m", "b", "e", "r">>,
     <<"o", "k", "t", "o", "b", "e", "r">>,
     <<"n", "o", "v", "e", "m", "b", "e", "r">>,
     <<"d", "e", "s", "e", "m", "b", "e", "r">>>>
      day == IF Len(parts[2]) < 2 THEN <<"0">> \o parts[2] ELSE parts[2]
      month == IF \E k \in 1..12 : months[k] = parts[3]
                 THEN CHOOSE k \in 1..12 : months[k] = parts[3]
                 ELSE 0
  IN IF Len(parts) < 4 \/ month = 0 THEN <<>>
     ELSE IF Len(parts[4]) = 4 /\ Len(day) = 2
               /\ (\A i \in 1..4 : parts[4][i] \in Digits)
               /\ (\A i \in 1..2 : day[i] \in Digits)
               /\ ToNumber(day) \in 1..31
       THEN <<DayNumber(ToNumber(parts[4]), month - 1, ToNumber(day)) * 1440>>
     ELSE <<>>

\* the day number of targetDate for the custom date of a command:
\* customDate.match(/(\d{1,2})[\/\-](\d{1,2})[\/\-](\d{4})/), <<>> without
\* a match; the three groups are the runs of digits of the matched text
anchorDay(customDate) ==
  LET m == Exec(<<Rep(Digits, 1, 2), One({"/", "-"}), Rep(Digits, 1, 2),
                  One({"/", "-"}), Rep(Digits, 4, 4)>>, customDate)
      g == split([i \in 1..(m.end - m.start) |->
                    IF customDate[m.start + i - 1] = "-" THEN "/"
                    ELSE customDate[m.start + i - 1]], "/")
  IN IF ~m.ok THEN <<>>
     ELSE <<DayNumber(ToNumber(g[3]), ToNumber(g[2]) - 1, ToNumber(g[1]))>>

\* <<the local day of startDate, the local day of endDate>> around the local
\* day of the anchor; <<>> when the period assigns neither
windowOf(period, day) ==
  IF period = "daily" THEN <<day, day>>
  ELSE IF period = "weekly"
    \* getDay() is 0 on Sunday; 1970-01-01 was a Thursday
    THEN IF (day + 4) % 7 = 0 THEN <<day - 6, day>>
         ELSE <<day + 1 - ((day + 4) % 7), day + 1 - ((day + 4) % 7) + 6>>
  ELSE IF period = "monthly"
    THEN <<DayNumber(MonthOf(day)[1], MonthOf(day)[2], 1),
           DayNumber(MonthOf(day)[1], MonthOf(day)[2] + 1, 0)>>
  ELSE <<>>

\* filterDataByPeriod at the instant now on a host of offset tz; customDate
\* is <<>> for null and for the empty string. The rows that pass are those
\* from the second on whose date parses to an instant from startDate, local
\* midnight, to endDate, 23:59:59.999 local time, which for instants of
\* whole minutes is up to minute 1439 of that day. With startDate and
\* endDate left undefined no comparison holds and no row passes.
filterDataByPeriod(data, period, customDate, now, tz) ==
  LET InWindow(w) ==
        SelectSeq(SubSeq(data, 2, Len(data)),
          LAMBDA row :
            /\ Cell(row, 0) # <<>>
            /\ parseIndonesianDate(Cell(row, 0)) # <<>>
            /\ w[1] * 1440 - tz <= parseIndonesianDate(Cell(row, 0))[1]
            /\ parseIndonesianDate(Cell(row, 0))[1] <= w[2] * 1440 - tz + 1439)
  IN IF customDate # <<>>
       THEN IF anchorDay(customDate) = <<>>
                 \/ windowOf(period, anchorDay(customDate)[1]) = <<>>
              THEN <<>>
            ELSE InWindow(windowOf(period, anchorDay(customDate)[1]))
     ELSE IF period \in {"daily", "weekly", "monthly"}
       THEN InWindow(windowOf(period, (now + tz) \div 1440))
     ELSE SubSeq(data, 2, Len(data))

\* Object.entries(map) of the tally of a column: <<key, count>> for each key
\* (row[column] || '-').toUpperCase(), in the order of the own properties of
\* an object: the keys that are array indices ("0", "7", "10", not "07") in
\* ascending numeric order, then the other keys in the order of their first
\* row
entriesOf(rows, column) ==
  LET Key(i) == toUpperCase(OrElse(Cell(rows[i], column), <<"-">>))
      IsIndex(k) == /\ \A c \in 1..Len(k) : k[c] \in Digits
                    /\ k = <<"0">> \/ k[1] # "0"
      Firsts == {i \in 1..Len(rows) : \A o \in 1..(i - 1) : Key(o) # Key(i)}
      Before(o, i) ==
        IF IsIndex(Key(o)) /\ IsIndex(Key(i)) THEN ToNumber(Key(o)) < ToNumber(Key(i))
        ELSE IF IsIndex(Key(o)) # IsIndex(Key(i)) THEN IsIndex(Key(o))
        ELSE o < i
  IN [p \in 1..Cardinality(Firsts) |->
        <<Key(CHOOSE i \in Firsts : Cardinality({o \in Firsts : Before(o, i)}) = p - 1),
          Cardinality({r \in 1..Len(rows) :
             Key(r) = Key(CHOOSE i \in Firsts :
                            Cardinality({o \in Firsts : Before(o, i)}) = p - 1)})>>]

\* entries.sort((a, b) => b[1] - a[1]): the sort is stable, an entry comes
\* behind the entries of a greater count and the earlier ones of its count
sortByCount(entries) ==
  [p \in 1..Len(entries) |->
     entries[CHOOSE e \in 1..Len(entries) :
               p = 1 + Cardinality({o \in 1..Len(entries) : entries[o][2] > entries[e][2]})
                     + Cardinality({o \in 1..(e - 1) : entries[o][2] = entries[e][2]})]]

\* getTodayDateString at the instant now: the date of that instant in
\* Asia/Jakarta, UTC+7 the year round, as toLocaleDateString('id-ID', ...)
\* writes it with a long weekday, a numeric day, a long month and the year
getTodayDateString(now) ==
  LET jakartaDay == (now + 420) \div 1440
      ym == MonthOf(jakartaDay)
      day == jakartaDay - DayNumber(ym[1], ym[2], 1) + 1
      Digit(k) == <<"0", "1", "2", "3", "4", "5", "6", "7", "8", "9">>[k + 1]
      weekdays ==
        <<<<"M", "i", "n", "g", "g", "u">>,
          <<"S", "e", "n", "i", "n">>,
          <<"S", "e", "l", "a", "s", "a">>,
          <<"R", "a", "b", "u">>,
          <<"K", "a", "m", "i", "s">>,
          <<"J", "u", "m", "a", "t">>,
          <<"S", "a", "b", "t", "u">>>>
      monthNames ==
        <<<<"J", "a", "n", "u", "a", "r", "i">>,
          <<"F", "e", "b", "r", "u", "a", "r", "i">>,
          <<"M", "a", "r", "e", "t">>,
          <<"A", "p", "r", "i", "l">>,
          <<"M", "e", "i">>,
          <<"J", "u", "n", "i">>,
          <<"J", "u", "l", "i">>,
          <<"A", "g", "u", "s", "t", "u", "s">>,
          <<"S", "e", "p", "t", "e", "m", "b", "e", "r">>,
          <<"O", "k", "t", "o", "b", "e", "r">>,
          <<"N", "o", "v", "e", "m", "b", "e", "r">>,
          <<"D", "e", "s", "e", "m", "b", "e", "r">>>>
  IN  weekdays[((jakartaDay + 4) % 7) + 1] \o <<",", " ">>
        \o (IF day < 10 THEN <<Digit(day)>> ELSE <<Digit(day \div 10), Digit(day % 10)>>)
        \o <<" ">> \o monthNames[ym[2] + 1] \o <<" ">>
        \o <<Digit(ym[1] \div 1000), Digit((ym[1] \div 100) % 10),
             Digit((ym[1] \div 10) % 10), Digit(ym[1] % 10)>>

\* the row of 12 columns that /aktivasi appends; the handlers of a run are
\* invoked on 1 September 2025
rowOf(parsed) ==
  <<getTodayDateString(DayNumber(2025, 8, 1) * 1440 + 600),
    parsed.ao, parsed.workorder, parsed.serviceNo, parsed.customerName, parsed.owner, parsed.workzone, parsed.snOnt,
    parsed.nikOnt, parsed.stbId, parsed.nikStb, parsed.teknisi>>

-----------------------------------------------------------------------------
(* The sheets and the incoming messages.                                     *)

HeaderRow ==
  <<<<"T", "A", "N", "G", "G", "A", "L">>,
    <<"A", "O">>,
    <<"W", "O", "R", "K", "O", "R", "D", "E", "R">>,
    <<"S", "E", "R", "V", "I", "C", "E", "_", "N", "O">>,
    <<"C", "U", "S", "T", "O", "M", "E", "R", "_", "N", "A", "M", "E">>,
    <<"O", "W", "N", "E", "R">>,
    <<"W", "O", "R", "K", "Z", "O", "N", "E">>,
    <<"S", "N", "_", "O", "N", "T">>,
    <<"N", "I", "K", "_", "O", "N", "T">>,
    <<"S", "T", "B", "_", "I", "D">>,
    <<"N", "I", "K", "_", "S", "T", "B">>,
    <<"T", "E", "K", "N", "I", "S", "I">>>>

\* a row written before, by the earlier /aktivasi flow or by hand: its AO
\* carries a trailing blank
LegacyRow ==
  <<<<"S", "e", "n", "i", "n", ",", " ", "1", " ", "S", "e", "p", "t", "e", "m", "b", "e", "r", " ", "2", "0", "2", "5">>,
    <<"S", "C", "1", "2", "3", "4", "5", "6", " ">>,
    <<>>,
    <<>>,
    <<>>,
    <<>>,
    <<>>,
    <<"Z", "T", "E", "G", "1">>,
    <<"9", "8">>,
    <<>>,
    <<>>,
    <<"@", "B", "o", "b">>>>

UserSheet ==
  <<<<<<"N", "A", "M", "A">>, <<"U", "S", "E", "R", "N", "A", "M", "E">>, <<"R", "O", "L", "E">>, <<"S", "T", "A", "T", "U", "S">>>>,
    <<<<"B", "o", "b">>, <<"@", "B", "o", "b">>, <<"U", "S", "E", "R">>, <<"A", "K", "T", "I", "F">>>>,
    <<<<"A", "m", "y">>, <<"a", "m", "y">>, <<"a", "d", "m", "i", "n">>, <<"a", "k", "t", "i", "f">>>>,
    <<<<"C", "a", "l">>, <<"c", "a", "l">>, <<"U", "S", "E", "R">>, <<"N", "O", "N", "A", "K", "T", "I", "F">>>>>>

\* the messages that arrive
Messages ==
  {\* an AO in lower case, by the label-based fallback
   [text |-> <<"/", "a", "k", "t", "i", "v", "a", "s", "i", " ", "A", "O", " ",
              ":", " ", "s", "c", "1", "2", "3", "4", "5", "6">>,
    username |-> <<"b", "o", "b">>, chatType |-> "private"],
   \* the same AO in upper case, in the TSEL format, from a group
   [text |-> <<"/", "a", "k", "t", "i", "v", "a", "s", "i", " ", "C", "H", "A",
              "N", "N", "E", "L", " ", ":", " ", "D", "I", "G", "I", "P", "O",
              "S", "\n", "A", "O", " ", ":", " ", "S", "C", "1", "2", "3", "4",
              "5", "6", "\n", "S", "T", "B", " ", "I", "D", " ", ":", " ", "S",
              "1", "\n", "N", "I", "K", " ", "S", "T", "B", " ", ":", " ", "2",
              "2">>,
    username |-> <<"A", "m", "y">>, chatType |-> "group"],
   \* the BGES format with a NIK STB and no STB ID
   [text |-> <<"/", "a", "k", "t", "i", "v", "a", "s", "i", " ", "I", "N", "D",
              "I", "B", "I", "Z", "\n", "A", "O", "|", " ", "M", "E", "D", "A",
              "N", " ", "S", "C", "7", "6", "5", "4", "3", "2", "1", "\n", "N",
              "I", "K", " ", "S", "T", "B", " ", ":", " ", "2", "2">>,
    username |-> <<"b", "o", "b">>, chatType |-> "supergroup"],
   \* an AO that equals the header cell
   [text |-> <<"/", "a", "k", "t", "i", "v", "a", "s", "i", " ", "A", "O", " ",
              ":", " ", "A", "O">>,
    username |-> <<"b", "o", "b">>, chatType |-> "private"],
   \* a payload without an AO
   [text |-> <<"/", "a", "k", "t", "i", "v", "a", "s", "i", " ", "h", "e", "l",
              "l", "o">>,
    username |-> <<"b", "o", "b">>, chatType |-> "private"],
   \* no payload
   [text |-> <<"/", "a", "k", "t", "i", "v", "a", "s", "i", " ">>,
    username |-> <<"b", "o", "b">>, chatType |-> "private"],
   \* a sender who is not in the USER sheet
   [text |-> <<"/", "a", "k", "t", "i", "v", "a", "s", "i", " ", "A", "O", " ",
              ":", " ", "S", "C", "9">>,
    username |-> <<"z", "e", "d">>, chatType |-> "private"],
   \* /clear by an admin
   [text |-> <<"/", "c", "l", "e", "a", "r">>,
    username |-> <<"A", "m", "y">>, chatType |-> "private"],
   \* /ps by a user who is no admin
   [text |-> <<"/", "p", "s">>,
    username |-> <<"b", "o", "b">>, chatType |-> "private"],
   \* /ps by an admin
   [text |-> <<"/", "p", "s">>,
    username |-> <<"A", "m", "y">>, chatType |-> "private"],
   \* /cari
   [text |-> <<"/", "c", "a", "r", "i">>,
    username |-> <<"b", "o", "b">>, chatType |-> "private"],
   \* /exportcari
   [text |-> <<"/", "e", "x", "p", "o", "r", "t", "c", "a", "r", "i">>,
    username |-> <<"b", "o", "b">>, chatType |-> "private"],
   \* an unknown command
   [text |-> <<"/", "f", "o", "o", " ", "b", "a", "r">>,
    username |-> <<"b", "o", "b">>, chatType |-> "private"],
   \* a command other than /aktivasi in a group
   [text |-> <<"/", "p", "s">>,
    username |-> <<"A", "m", "y">>, chatType |-> "group"]}

-----------------------------------------------------------------------------
(* The state: the two sheets, and one handler invocation per incoming       *)
(* message. Handlers run concurrently and interleave at their awaits.        *)

\* the number of messages received in a run
MaxReq == 2

\* the number of lines of a payload drawn for the extraction alone
MaxLines == 2

\* the number of rows of a sheet put together for the commands and the reports
MaxRows == 3

Requests == 1..MaxReq

VARIABLES
  rekapan,      \* the rows of the sheet REKAPAN QUALITY, header first
  users,        \* the rows of the sheet USER, header first
  h,            \* h[r]: the handler invocation of the r-th message
  appendCount,  \* the number of rows appended so far, over all handlers
  baseLen,      \* the number of rows of the record sheet at the start
  ptext,        \* the payload given to the extraction alone
  ptag,         \* the owner detected in it
  precord,      \* the record extracted from it
  rep           \* the request of a report, and its rows and ranking once made

vars == <<rekapan, users, h, appendCount, baseLen, ptext, ptag, precord, rep>>

\* the value of a variable that nothing was assigned to yet: no string
Undefined == <<"undefined">>

Reply(kind, arg) == [kind |-> kind, arg |-> arg]

\* 'Terjadi kesalahan sistem. Silakan coba lagi nanti.'
ErrorReply == Reply("systemError", <<>>)

Idle ==
  [pc |-> "idle", msg |-> [text |-> <<>>, username |-> <<>>, chatType |-> "private"],
   cmd |-> "none", user |-> Null, parsed |-> EmptyRecord, row |-> <<>>,
   data |-> <<>>, uniqueData |-> <<>>, reply |-> Reply("none", <<>>), outcome |-> "NONE",
   sent |-> <<>>, calls |-> <<>>, readAt |-> 0, appendOrd |-> 0, inCatch |-> FALSE]

\* return sendTelegram(chatId, text, ...): the call is made and the handler
\* ends with its promise
Send(hr, reply, outcome) ==
  [hr EXCEPT !.pc = "send", !.reply = reply, !.outcome = outcome,
             !.sent = Append(@, reply)]

CatchSilent(hr) == [hr EXCEPT !.pc = "failed", !.inCatch = TRUE, !.outcome = "ERROR"]

\* the catch block of the handler: the generic system-error reply
Catch(hr) == Send([hr EXCEPT !.inCatch = TRUE], ErrorReply, "ERROR")

\* the handler with one more call of an external operation on its record
Logged(hr, op, target, ok) ==
  [hr EXCEPT !.calls = Append(@, [op |-> op, target |-> target, ok |-> ok])]

\* a message of a set arrives: the synchronous start of the handler, to its
\* first await
Receive(r, messages) ==
  /\ h[r].pc = "idle"
  /\ \A q \in Requests : q < r => h[q].pc # "idle"
  /\ \E m \in messages :
       LET text == trim(m.text)
           cmd == Dispatch(text, m.chatType)
           hr == [h[r] EXCEPT !.msg = [m EXCEPT !.text = text], !.cmd = cmd]
       IN  h' = [h EXCEPT ![r] =
                   IF cmd \in {"ignored", "none"}
                     THEN [hr EXCEPT !.pc = "done", !.outcome = "IGNORED"]
                   ELSE IF cmd = "unknown"
                     THEN Send(hr, Reply("unknown", <<>>), "REPLIED")
                   ELSE [hr EXCEPT !.pc = "getUser"]]
  /\ UNCHANGED <<rekapan, users, appendCount, baseLen, ptext, ptag, precord, rep>>

\* /aktivasi after the extraction: the validation of the required field
afterParseUnvalidated(hr, parsed) == [hr EXCEPT !.pc = "getData", !.parsed = parsed]

afterParse(hr, parsed) ==
  IF missingOf(parsed) # <<>>
    THEN Send([hr EXCEPT !.parsed = parsed],
              Reply("incomplete", missingOf(parsed)), "REJECTED_INCOMPLETE")
    ELSE [hr EXCEPT !.pc = "getData", !.parsed = parsed]

\* /aktivasi of an active user, for the payload behind the command
afterInput(hr, inputText) ==
  IF inputText = <<>>
    THEN Send(hr, Reply("noPayload", <<>>), "NO_PAYLOAD")
    ELSE afterParse(hr, parseAktivasi(inputText, hr.user, hr.msg.username))

\* the handler after `await getUserData(username)` or `await isAdmin(username)`
afterUser(hr, user) ==
  IF hr.cmd \in UserCommands
    THEN IF user = Null
           THEN Send(hr, Reply("notActive", <<>>), "NOT_ACTIVE")
         ELSE IF hr.cmd = "aktivasi"
           THEN afterInput([hr EXCEPT !.user = user], inputTextOf(hr.msg.text))
         ELSE [hr EXCEPT !.pc = "getData", !.user = user]
  ELSE IF hr.cmd \in AdminCommands
    THEN IF ~isAdminUser(user)
           THEN Send(hr, Reply("denied", <<>>), "DENIED")
           ELSE [hr EXCEPT !.pc = "getData", !.user = user]
  ELSE Send(hr, Reply("help", <<isAdminUser(user)>>), "REPLIED")

\* the read of the USER sheet returns, or fails
UserReturn(r) ==
  /\ h[r].pc = "getUser"
  /\ \E ok \in BOOLEAN :
       h' = [h EXCEPT ![r] =
               afterUser(Logged(h[r], "getSheetData", "USER", ok),
                         getUserData(users, ok, h[r].msg.username))]
  /\ UNCHANGED <<rekapan, users, appendCount, baseLen, ptext, ptag, precord, rep>>

\* the rows of the technician of /cari, /exportcari and /<username>
rowsOfTeknisi(data, userTeknisi) ==
  {i \in 2..Len(data) :
     toLowerCase(replaceFirst(Cell(data[i], 11), "@")) = userTeknisi}

userActivations(data, hr) ==
  rowsOfTeknisi(data,
    toLowerCase(replaceFirst(OrElse(Cell(hr.user, 1), hr.msg.username), "@")))

\* /<username>: the count of the rows of text.substring(1).toLowerCase(), and
\* the rankings of their owners and of their work zones
teknisiStats(data, text) ==
  LET rows == SelectSeq(SubSeq(data, 2, Len(data)),
                LAMBDA row : toLowerCase(replaceFirst(Cell(row, 11), "@"))
                               = toLowerCase(Tail(text)))
  IN  <<Len(rows), sortByCount(entriesOf(rows, 5)), sortByCount(entriesOf(rows, 6))>>

\* /clear after its loop over the rows
afterClearLoop(hr, c) ==
  IF c.duplicateCount = 0
    THEN Send(hr, Reply("clean", <<>>), "REPLIED")
    ELSE [hr EXCEPT !.pc = "update", !.uniqueData = c.uniqueData,
                    !.reply = Reply("cleared", <<c.duplicateCount>>)]

afterDataAllpsClears(hr, data) ==
  IF hr.cmd = "aktivasi"
    THEN IF isDuplicate(data, hr.parsed.ao)
           THEN Send(hr, Reply("duplicate", <<>>), "REJECTED_DUPLICATE")
           ELSE [hr EXCEPT !.pc = "append", !.row = rowOf(hr.parsed)]
  ELSE IF hr.cmd \in {"clear", "allps"}
    THEN IF Len(data) <= 1
           THEN Send(hr, Reply("clean", <<>>), "REPLIED")
           ELSE afterClearLoop(hr, clearFrom(data, 2, {}, <<data[1]>>, 0))
  ELSE IF hr.cmd = "exportcari"
    THEN IF userActivations(data, hr) = {}
           THEN Send(hr, Reply("noExport", <<>>), "REPLIED")
           ELSE [hr EXCEPT !.pc = "csv"]
  ELSE IF hr.cmd = "cari"
    THEN Send(hr, Reply("stats", <<Cardinality(userActivations(data, hr))>>), "REPLIED")
  ELSE IF hr.cmd = "username"
    THEN Send(hr, Reply("teknisiStats", teknisiStats(data, hr.msg.text)), "REPLIED")
  ELSE Send(hr, Reply("report", <<hr.cmd>>), "REPLIED")

\* the handler after `await getSheetData(REKAPAN_SHEET)` returned data
afterData(hr, data) ==
  IF hr.cmd = "aktivasi"
    THEN IF isDuplicate(data, hr.parsed.ao)
           THEN Send(hr, Reply("duplicate", <<>>), "REJECTED_DUPLICATE")
           ELSE [hr EXCEPT !.pc = "append", !.row = rowOf(hr.parsed)]
  ELSE IF hr.cmd = "clear"
    THEN IF Len(data) <= 1
           THEN Send(hr, Reply("clean", <<>>), "REPLIED")
           ELSE afterClearLoop(hr, clearFrom(data, 2, {}, <<data[1]>>, 0))
  ELSE IF hr.cmd = "exportcari"
    THEN IF userActivations(data, hr) = {}
           THEN Send(hr, Reply("noExport", <<>>), "REPLIED")
           ELSE [hr EXCEPT !.pc = "csv"]
  ELSE IF hr.cmd = "cari"
    THEN Send(hr, Reply("stats", <<Cardinality(userActivations(data, hr))>>), "REPLIED")
  ELSE IF hr.cmd = "username"
    THEN Send(hr, Reply("teknisiStats", teknisiStats(data, hr.msg.text)), "REPLIED")
  ELSE Send(hr, Reply("report", <<hr.cmd>>), "REPLIED")

\* the read of the record sheet returns, or fails
DataReturn(r) ==
  /\ h[r].pc = "getData"
  /\ \E ok \in BOOLEAN :
       LET hr == [Logged(h[r], "getSheetData", "REKAPAN", ok)
                    EXCEPT !.readAt = appendCount,
                           !.data = IF ok THEN rekapan ELSE <<>>]
       IN  h' = [h EXCEPT ![r] = IF ok THEN afterData(hr, hr.data) ELSE Catch(hr)]
  /\ UNCHANGED <<rekapan, users, appendCount, baseLen, ptext, ptag, precord, rep>>

appendTwice(sheet, row) == Append(Append(sheet, row), row)

\* sheets.spreadsheets.values.append: one row after the last
appendSheetData(sheet, row) == Append(sheet, row)

\* the handler after `await appendSheetData(REKAPAN_SHEET, row)` succeeded
afterAppend(hr) == Send(hr, Reply("confirm", <<>>), "PERSISTED")

\* the append returns, or fails and leaves the sheet as it was
AppendReturn(r) ==
  /\ h[r].pc = "append"
  /\ \E ok \in BOOLEAN :
       LET hr == Logged(h[r], "appendSheetData", "REKAPAN", ok)
       IN  IF ok
             THEN /\ rekapan' = appendSheetData(rekapan, h[r].row)
                  /\ appendCount' = appendCount + 1
                  /\ h' = [h EXCEPT ![r] =
                             afterAppend([hr EXCEPT !.appendOrd = appendCount + 1])]
             ELSE /\ h' = [h EXCEPT ![r] = Catch(hr)]
                  /\ UNCHANGED <<rekapan, appendCount>>
  /\ UNCHANGED <<users, baseLen, ptext, ptag, precord, rep>>

\* the bulk overwrite of /clear returns, or fails and leaves the sheet as it was
UpdateReturn(r) ==
  /\ h[r].pc = "update"
  /\ \E ok \in BOOLEAN :
       LET hr == Logged(h[r], "updateSheetData", "REKAPAN", ok)
       IN  IF ok
             THEN /\ rekapan' = updateRange(rekapan, h[r].uniqueData)
                  /\ h' = [h EXCEPT ![r] = Send(hr, h[r].reply, "CLEARED")]
             ELSE /\ h' = [h EXCEPT ![r] = Catch(hr)]
                  /\ UNCHANGED rekapan
  /\ UNCHANGED <<users, appendCount, baseLen, ptext, ptag, precord, rep>>

\* `await sendCSVFile(...)` of /exportcari returns, or throws into the catch
CsvReturn(r) ==
  /\ h[r].pc = "csv"
  /\ \E ok \in BOOLEAN :
       LET hr == Logged(h[r], "sendCSVFile", "chat", ok)
       IN  h' = [h EXCEPT ![r] =
                   IF ok THEN [hr EXCEPT !.pc = "done", !.outcome = "REPLIED"]
                   ELSE Catch(hr)]
  /\ UNCHANGED <<rekapan, users, appendCount, baseLen, ptext, ptag, precord, rep>>

sendFailureCaught(hr) ==
  IF hr.inCatch THEN [hr EXCEPT !.pc = "failed"] ELSE Catch(hr)

\* a `return sendTelegram(...)` inside the try block is not awaited there:
\* its rejection rejects the handler's promise and the catch block never runs
sendFailure(hr) == [hr EXCEPT !.pc = "failed"]

\* sendTelegram resolves, or rejects once its retries are used up
SendReturn(r) ==
  /\ h[r].pc = "send"
  /\ \E ok \in BOOLEAN :
       LET hr == Logged(h[r], "sendTelegram", h[r].reply.kind, ok)
       IN  h' = [h EXCEPT ![r] =
                   IF ok THEN [hr EXCEPT !.pc = "done"] ELSE sendFailure(hr)]
  /\ UNCHANGED <<rekapan, users, appendCount, baseLen, ptext, ptag, precord, rep>>

InitHandlers ==
  /\ users = UserSheet
  /\ h = [r \in Requests |-> Idle]
  /\ appendCount = 0
  /\ baseLen = Len(rekapan)
  /\ ptext = <<>>
  /\ ptag = Undefined
  /\ precord = EmptyRecord
  /\ rep = <<>>

Init ==
  \* the record sheet at the start: new, or with rows of the earlier flow,
  \* which appended without a duplicate check
  /\ rekapan \in {<<HeaderRow>>, <<HeaderRow, LegacyRow>>,
                  <<HeaderRow, LegacyRow, LegacyRow>>}
  /\ InitHandlers

Next ==
  \E r \in Requests :
    \/ Receive(r, Messages)
    \/ UserReturn(r)
    \/ DataReturn(r)
    \/ AppendReturn(r)
    \/ UpdateReturn(r)
    \/ CsvReturn(r)
    \/ SendReturn(r)

\* handlers that interleave at their awaits
Spec == Init /\ [][Next]_vars

InitSeq ==
  /\ rekapan = <<HeaderRow>>
  /\ InitHandlers

NextSeq ==
  \E r \in Requests :
    \/ /\ \A q \in Requests : h[q].pc \in {"idle", "done", "failed"}
       /\ Receive(r, Messages)
    \/ UserReturn(r)
    \/ DataReturn(r)
    \/ AppendReturn(r)
    \/ CsvReturn(r)
    \/ SendReturn(r)

\* each message handled to completion before the next one is received,
\* from a record sheet that holds the header alone; /clear then finds no row
\* to remove and never reaches its overwrite
SpecSeq == InitSeq /\ [][NextSeq]_vars

-----------------------------------------------------------------------------
(* Every command, one message at a time, on sheets put together from a pool  *)
(* of rows.                                                                   *)

\* the texts of the commands for admins and of those for every user, each
\* sent by an admin (Amy), an active user (bob), a user who is not active
\* (cal) and a sender who is not in the USER sheet (zed)
CommandMessages ==
  LET Private(texts, usernames) ==
        {[text |-> text, username |-> username, chatType |-> "private"] :
           text \in texts, username \in usernames}
  IN  Private({cmdPs, cmdPs \o <<" ", "1", "5", "/", "0", "9", "/", "2", "0", "2", "5">>, cmdWeekly, cmdMonthly,
               cmdTopteknisi, cmdTopteknisi \o <<" ", "w", "e", "e", "k", "l", "y">>, cmdAllps, cmdClear,
               <<"/", "b", "o", "b">>, <<"/", "B", "O", "B">>, <<"/", "h", "k", "s", "_", "1">>, <<"/", "p", "s", "y", "c", "h", "o">>},
              {<<"A", "m", "y">>, <<"b", "o", "b">>, <<"z", "e", "d">>})
      \cup Private({cmdAktivasi \o <<" ", "A", "O", " ", ":", " ", "S", "C", "9">>, cmdCari, cmdExportcari, cmdHelp,
                    cmdStart, <<"/", "f", "o", "o", " ", "b", "a", "r">>, <<"h", "e", "l", "l", "o">>},
                   {<<"A", "m", "y">>, <<"b", "o", "b">>, <<"c", "a", "l">>, <<"z", "e", "d">>})
      \cup {[text |-> cmdAllps, username |-> <<"A", "m", "y">>, chatType |-> "group"]}

\* the record sheet at the start: up to MaxRows rows, among them rows with
\* the same AO in another case or with a blank behind it, and rows without
\* an AO
InitCommands ==
  LET Row(ao, teknisi) ==
        rowOf([EmptyRecord EXCEPT !.ao = ao, !.teknisi = teknisi, !.owner = sBGES,
                                  !.workzone = <<"M", "E", "D", "A", "N">>])
      Pool == <<LegacyRow, Row(<<"s", "c", "1", "2", "3", "4", "5", "6">>, <<"b", "o", "b">>), Row(<<>>, <<"p", "s", "y", "c", "h", "o">>), Row(<<"S", "C", "9">>, <<"H", "K", "S", "_", "1">>)>>
  IN
  /\ rekapan \in {<<HeaderRow>> \o [i \in DOMAIN ks |-> Pool[ks[i]]] :
                    ks \in UNION {[1..n -> DOMAIN Pool] : n \in 0..MaxRows}}
  /\ InitHandlers

NextCommands ==
  \/ Receive(1, CommandMessages)
  \/ UserReturn(1)
  \/ DataReturn(1)
  \/ AppendReturn(1)
  \/ UpdateReturn(1)
  \/ CsvReturn(1)
  \/ SendReturn(1)

SpecCommands == InitCommands /\ [][NextCommands]_vars

-----------------------------------------------------------------------------
(* The extraction alone, on payloads put together from a pool of lines.      *)

LinePool ==
  {<<"C", "h", "a", "n", "n", "e", "l", " ", ":", " ", "D", "i", "g", "i", "p", "o", "s">>,
   <<"D", "A", "T", "E", " ", "C", "R", "E", "A", "T", "E", "D">>,
   <<"W", "o", "r", "k", "o", "r", "d", "e", "r", " ", ":", " ", "W", "O", "1">>,
   <<"i", "n", "d", "i", "b", "i", "z">>,
   <<"H", "S", "I">>,
   <<"W", "M", "S">>,
   <<"m", "w", "s">>,
   <<"A", "O", " ", ":", " ", "s", "c", "1", "2", "3", "4", "5", "6">>,
   <<"A", "O", "|", " ", "M", "E", "D", "A", "N", " ", "S", "C", "7", "6", "5", "4", "3", "2", "1">>,
   <<"S", "T", "B", " ", "I", "D", " ", ":", " ", "S", "1">>,
   <<"N", "I", "K", " ", "S", "T", "B", " ", ":", " ", "2", "2">>,
   <<"O", "W", "N", "E", "R", " ", ":", " ", "X", "Y", "Z">>,
   <<"C", "H", "A", "N", "N", "E", "L", " ", ":", " ", "D", "I", "G", "I", "P", "O", "S", "\n", "A", "O", " ", ":", " ", "S", "C", "0", "0", "0", "1", "1", "1", "\n", "S", "E", "R", "V", "I", "C", "E", " ", "N", "O", " ", ":", " ", "1", "2", "3", "4", "5", "6", "7", "8", "9", "0", "1", "\n", "S", "N", " ", "O", "N", "T", " ", ":", " ", "Z", "T", "E", "G", "D", "A", "0", "0", "0", "0", "1", "\n", "N", "I", "K", " ", "O", "N", "T", " ", ":", " ", "1", "1", "1", "2", "2", "2", "3", "3", "3">>,
   <<"A", "O", "|", " ", "B", "I", "N", "J", "A", "I", " ", "S", "C", "1", "1", "1", "1", "1", "1", "1", " ", "H", "S", "I">>,
   <<"A", "O", "|", " ", "M", "E", "D", "A", "N", " ", "S", "C", "7", "6", "5", "4", "3", "2", "1", "\n", "0", "1", "/", "0", "9", "/", "2", "0", "2", "5", " ", "1", "0", ":", "0", "0", " ", "1", " ", "B", "U", "D", "I", " ", " ", "H", "S", "I">>,
   <<"0", "2", "/", "0", "9", "/", "2", "0", "2", "5", " ", "1", "1", ":", "0", "0", " ", "2", " ", "S", "I", "T", "I", " ", " ", "X">>,
   <<"1", "1", "2", "2", "3", "3", "4", "4", "5", "5", "6", "6", " ", "H", "S", "I">>,
   <<"1", "2", "3", "4", "5", "6", "7", "8", "9", "0", "1">>,
   <<"O", "W", "N", "E", "R", " ", ":", " ", "W", "M", "S">>,
   <<"T", "E", "K", "N", "I", "S", "I", " ", ":", " ", "@", "e", "v", "i", "l">>,
   <<"o", "w", "n", "e", "r", " ", "w", "m", "s">>}

\* the payloads of at most MaxLines lines of the pool
Payloads ==
  UNION {{join(ls, "\n") : ls \in [1..n -> LinePool]} : n \in 1..MaxLines}

InitParse ==
  /\ rekapan = <<HeaderRow>>
  /\ users = UserSheet
  /\ h = [r \in Requests |-> Idle]
  /\ appendCount = 0
  /\ baseLen = Len(rekapan)
  /\ ptext \in Payloads
  /\ ptag = Undefined
  /\ precord = EmptyRecord
  /\ rep = <<>>

\* const parsed = parseAktivasi(inputText, user), for the first user of the sheet
Extract ==
  /\ ptag = Undefined
  /\ ptag' = detectOwner(ptext)
  /\ precord' = parseAktivasi(ptext, users[2], users[2][2])
  /\ UNCHANGED <<rekapan, users, h, appendCount, baseLen, ptext, rep>>

SpecParse == InitParse /\ [][Extract]_vars

-----------------------------------------------------------------------------
(* The /aktivasi of the earlier bot, src/unnamed/part_000, on the same       *)
(* payloads.                                                                 *)

\* lines.find(l => regex.test(l)), undefined when no line matches
RECURSIVE findLine(_, _)
findLine(lines, p) ==
  IF lines = <<>> THEN Undefined
  ELSE IF Test(p, Head(lines)) THEN Head(lines)
  ELSE findLine(Tail(lines), p)

\* findByPattern: (line.match(regex)[1] || '').trim() of the first line that
\* matches, '' without one
findByPattern(lines, p) ==
  LET line == findLine(lines, p)
  IN IF line = Undefined THEN <<>> ELSE trim(captureOf(Exec(p, line)))

\* getField(label, /LABEL[ :|]+(...)/): the labelled line, else the pattern,
\* which is matched with the i flag; cls is the class of the captured run
getField(lines, label, cls) ==
  OrElse(getValueIn(lines, label),
         findByPattern(lines, LitI(label) \o <<Plus({" ", ":", "|"}), Cap(Plus(cls))>>))

\* the owner; ownerLine.split('OWNER')[1] is undefined for a line that has
\* the word in another case, and its trim() throws: Undefined
legacyOwner(lines, text) ==
  LET ownerLine == findLine(lines, LitI(sOWNER) \o <<Plus(WhiteSpace), Plus(WordChars)>>)
      rest == SubSeq(ownerLine, indexFrom(ownerLine, sOWNER, 1) + Len(sOWNER), Len(ownerLine))
  IN IF getValueIn(lines, sOWNER) # <<>> THEN getValueIn(lines, sOWNER)
     ELSE IF ownerLine # Undefined
       THEN IF ~includes(ownerLine, sOWNER) THEN Undefined
            ELSE IF includes(rest, sOWNER)
              THEN trim(SubSeq(rest, 1, indexFrom(rest, sOWNER, 1) - 1))
            ELSE trim(rest)
     ELSE IF includes(toUpperCase(text), sBGES) THEN sBGES
     ELSE IF includes(toUpperCase(text), sWMS) THEN sWMS
     ELSE IF includes(toUpperCase(text), sTSEL) THEN sTSEL
     ELSE <<>>

\* the fields of the row, the technician among them read from the text
legacyRecord(lines, owner) ==
  [ao |-> getField(lines, sAO, Alnum),
   workorder |-> getField(lines, sWORKORDER, Alnum),
   serviceNo |-> getField(lines, <<"S", "E", "R", "V", "I", "C", "E", " ", "N", "O">>, Digits),
   customerName |-> getField(lines, <<"C", "U", "S", "T", "O", "M", "E", "R", " ", "N", "A", "M", "E">>,
                             Alphabet \ {"\n"}),
   owner |-> owner,
   workzone |-> getField(lines, sWORKZONE, Alnum),
   snOnt |-> getField(lines, <<"S", "N", " ", "O", "N", "T">>, Alnum),
   nikOnt |-> getField(lines, <<"N", "I", "K", " ", "O", "N", "T">>, Digits),
   stbId |-> getField(lines, <<"S", "T", "B", " ", "I", "D">>, Alnum),
   nikStb |-> getField(lines, <<"N", "I", "K", " ", "S", "T", "B">>, Digits),
   teknisi |-> getField(lines, <<"T", "E", "K", "N", "I", "S", "I">>, Alphabet \ {"\n"})]

\* the handler from the payload to the row it appends: the exception of the
\* owner goes to the catch block, a row without SN ONT or NIK ONT is refused
ExtractLegacy ==
  /\ ptag = Undefined
  /\ ptag' = IF legacyOwner(linesOf(ptext), ptext) = Undefined THEN <<"error">>
             ELSE IF legacyRecord(linesOf(ptext), <<>>).snOnt = <<>>
                     \/ legacyRecord(linesOf(ptext), <<>>).nikOnt = <<>>
               THEN <<"incomplete">>
             ELSE <<"stored">>
  /\ precord' = IF legacyOwner(linesOf(ptext), ptext) = Undefined THEN EmptyRecord
                ELSE legacyRecord(linesOf(ptext), legacyOwner(linesOf(ptext), ptext))
  /\ UNCHANGED <<rekapan, users, h, appendCount, baseLen, ptext, rep>>

SpecLegacy == InitParse /\ [][ExtractLegacy]_vars

-----------------------------------------------------------------------------
(* The reports alone: the period filter and the ranking on a sheet.          *)

\* StoredDates: the dates of the rows, days at both ends of a week, of
\* months of 28 to 31 days and of a year, and dates that are not well formed;
\* RowOf: a row as /aktivasi writes it, of a date and a technician
InitReport ==
  LET StoredDates ==
        <<<<"M", "i", "n", "g", "g", "u", ",", " ", "1", "4", " ", "S", "e", "p", "t", "e", "m", "b", "e", "r", " ", "2", "0", "2", "5">>,
          <<"S", "e", "n", "i", "n", ",", " ", "1", "5", " ", "S", "e", "p", "t", "e", "m", "b", "e", "r", " ", "2", "0", "2", "5">>,
          <<"M", "i", "n", "g", "g", "u", ",", " ", "2", "1", " ", "S", "e", "p", "t", "e", "m", "b", "e", "r", " ", "2", "0", "2", "5">>,
          <<"S", "e", "n", "i", "n", ",", " ", "2", "2", " ", "S", "e", "p", "t", "e", "m", "b", "e", "r", " ", "2", "0", "2", "5">>,
          <<"M", "i", "n", "g", "g", "u", ",", " ", "3", "1", " ", "A", "g", "u", "s", "t", "u", "s", " ", "2", "0", "2", "5">>,
          <<"S", "e", "n", "i", "n", ",", " ", "1", " ", "S", "e", "p", "t", "e", "m", "b", "e", "r", " ", "2", "0", "2", "5">>,
          <<"S", "e", "l", "a", "s", "a", ",", " ", "3", "0", " ", "S", "e", "p", "t", "e", "m", "b", "e", "r", " ", "2", "0", "2", "5">>,
          <<"R", "a", "b", "u", ",", " ", "1", " ", "O", "k", "t", "o", "b", "e", "r", " ", "2", "0", "2", "5">>,
          <<"R", "a", "b", "u", ",", " ", "2", "8", " ", "F", "e", "b", "r", "u", "a", "r", "i", " ", "2", "0", "2", "4">>,
          <<"K", "a", "m", "i", "s", ",", " ", "2", "9", " ", "F", "e", "b", "r", "u", "a", "r", "i", " ", "2", "0", "2", "4">>,
          <<"J", "u", "m", "a", "t", ",", " ", "1", " ", "M", "a", "r", "e", "t", " ", "2", "0", "2", "4">>,
          <<"S", "e", "l", "a", "s", "a", ",", " ", "3", "0", " ", "D", "e", "s", "e", "m", "b", "e", "r", " ", "2", "0", "2", "5">>,
          <<"R", "a", "b", "u", ",", " ", "3", "1", " ", "D", "e", "s", "e", "m", "b", "e", "r", " ", "2", "0", "2", "5">>,
          <<"K", "a", "m", "i", "s", ",", " ", "1", " ", "J", "a", "n", "u", "a", "r", "i", " ", "2", "0", "2", "6">>,
          <<"X", "y", "z", ",", " ", "1", "5", " ", "S", "e", "p", "t", "e", "m", "b", "e", "r", " ", "2", "0", "2", "5">>,
          <<"S", "e", "n", "i", "n", ",", " ", "1", "5", " ", "S", "e", "p", "t", "e", "m", "b", "r", "e", " ", "2", "0", "2", "5">>,
          <<"1", "5", " ", "S", "e", "p", "t", "e", "m", "b", "e", "r", " ", "2", "0", "2", "5">>,
          <<>>>>
      RowOf(date, teknisi) ==
        [rowOf([EmptyRecord EXCEPT !.teknisi = teknisi,
                                   !.workzone = <<"M", "E", "D", "A", "N">>])
           EXCEPT ![1] = date]
  IN
  /\ users = UserSheet
  /\ h = [r \in Requests |-> Idle]
  /\ appendCount = 0
  /\ ptext = <<>>
  /\ ptag = Undefined
  /\ precord = EmptyRecord
  /\ \/ \* a sheet of all the dates, for every period, custom date, instant
        \* and offset of the host: UTC-5, UTC and UTC+7
        /\ rekapan = <<HeaderRow>>
                       \o [i \in 1..Len(StoredDates) |-> RowOf(StoredDates[i], <<"B", "o", "b">>)]
        /\ rep \in [period : {"daily", "weekly", "monthly", "all"},
                    customDate : {<<>>,
                                  <<"1", "5", "/", "0", "9", "/", "2", "0", "2", "5">>,
                                  <<"1", "7", "-", "9", "-", "2", "0", "2", "5">>,
                                  <<"2", "1", "/", "0", "9", "/", "2", "0", "2", "5">>,
                                  <<"2", "9", "/", "0", "2", "/", "2", "0", "2", "4">>,
                                  <<"3", "1", "/", "1", "2", "/", "2", "0", "2", "5">>,
                                  <<"3", "1", "/", "0", "2", "/", "2", "0", "2", "5">>,
                                  <<"f", "o", "o">>,
                                  <<"2", "0", "2", "5", "-", "0", "9", "-", "1", "5">>},
                    now : {DayNumber(2025, 8, 14) * 1440 + 1200,
                           DayNumber(2025, 8, 15) * 1440 + 600,
                           DayNumber(2025, 8, 21) * 1440 + 1410},
                    tz : {-300, 0, 420},
                    done : {FALSE}, filtered : {<<>>}, teknisi : {<<>>},
                    workzone : {<<>>}, owner : {<<>>}]
     \/ \* sheets of up to MaxRows rows of one day, of any technicians: handles
        \* as the handler stores them, and one with its "@" as the earlier
        \* flow or a hand could write it
        /\ rekapan \in
             {<<HeaderRow>> \o [i \in DOMAIN ks |-> RowOf(StoredDates[2], ks[i])] :
                ks \in UNION {[1..n -> {<<"a", "m", "y">>, <<"B", "o", "b">>, <<"b", "o", "b">>, <<"@", "B", "o", "b">>,
                               <<"7">>, <<"1", "0">>, <<>>}] : n \in 1..MaxRows}}
        /\ rep = [period |-> "daily", customDate |-> <<"1", "5", "/", "0", "9", "/", "2", "0", "2", "5">>,
                  now |-> DayNumber(2025, 8, 15) * 1440 + 600, tz |-> 420,
                  done |-> FALSE, filtered |-> <<>>, teknisi |-> <<>>,
                  workzone |-> <<>>, owner |-> <<>>]
     \/ \* a sheet of one row, stored at the instant of the report: every hour
        \* of three days, the last of them the last day of a year
        /\ \E day \in {DayNumber(2025, 8, 15), DayNumber(2024, 1, 29), DayNumber(2025, 11, 31)} :
             \E hour \in 0..23 :
               /\ rekapan = <<HeaderRow, RowOf(getTodayDateString(day * 1440 + hour * 60 + 30),
                                                <<"B", "o", "b">>)>>
               /\ rep \in [period : {"daily"}, customDate : {<<>>},
                           now : {day * 1440 + hour * 60 + 30}, tz : {-300, 0, 420},
                           done : {FALSE}, filtered : {<<>>}, teknisi : {<<>>},
                           workzone : {<<>>}, owner : {<<>>}]
  /\ baseLen = Len(rekapan)

\* filterDataByPeriod applied to the rows read, and the three rankings of
\* the reports on its result
Report ==
  /\ ~rep.done
  /\ LET filteredData == filterDataByPeriod(rekapan, rep.period, rep.customDate,
                                            rep.now, rep.tz)
     IN rep' = [rep EXCEPT !.done = TRUE,
                           !.filtered = filteredData,
                           !.teknisi = sortByCount(entriesOf(filteredData, 11)),
                           !.workzone = sortByCount(entriesOf(filteredData, 6)),
                           !.owner = sortByCount(entriesOf(filteredData, 5))]
  /\ UNCHANGED <<rekapan, users, h, appendCount, baseLen, ptext, ptag, precord>>

SpecReport == InitReport /\ [][Report]_vars

-----------------------------------------------------------------------------
(* The properties.                                                           *)

\* the calls of an operation on a target that a handler has made so far
CallsOf(hr, op, target) ==
  {i \in 1..Len(hr.calls) : hr.calls[i].op = op /\ hr.calls[i].target = target}

OkCalls(hr, op, target) == {i \in CallsOf(hr, op, target) : hr.calls[i].ok}

FailedCalls(hr, op, target) == {i \in CallsOf(hr, op, target) : ~hr.calls[i].ok}

\* sendTelegram was called with a reply of this kind
Sent(hr, kind) == \E i \in 1..Len(hr.sent) : hr.sent[i].kind = kind

Finished(hr) == hr.pc \in {"done", "failed"}

\* the normalized reference id of a row of the record sheet
KeyOf(row) == trim(toUpperCase(Cell(row, 1)))

\* the keys of the data rows of a sheet, the header row left out
DataKeys(sheet) == {KeyOf(sheet[i]) : i \in 2..Len(sheet)}

\* an /aktivasi of an active user with a payload: a submission that
\* reaches the extraction
Submission(hr) ==
  /\ hr.cmd = "aktivasi"
  /\ hr.user # Null
  /\ inputTextOf(hr.msg.text) # <<>>

sc123456 == <<"s", "c", "1", "2", "3", "4", "5", "6">>

SC123456blank == <<"S", "C", "1", "2", "3", "4", "5", "6", " ">>

\* C1: from a record sheet that holds the header alone, with every message
\* handled to completion before the next is received, no two data rows of the
\* record sheet have AO cells that are equal after uppercasing and trimming.
C1_UniqueReferenceIds ==
  \A i, j \in 2..Len(rekapan) :
    i # j => KeyOf(rekapan[i]) # KeyOf(rekapan[j])

\* one submission stored, a later one with the same AO in another case rejected
C1_Witness ==
  \E r1, r2 \in Requests :
    /\ Finished(h[r1]) /\ h[r1].outcome = "PERSISTED"
    /\ Finished(h[r2]) /\ h[r2].outcome = "REJECTED_DUPLICATE"
    /\ h[r1].parsed.ao # h[r2].parsed.ao
    /\ Len(rekapan) = 2

\* C2: the duplicate check and the append are not atomic. Two requests have
\* both appended rows of the same normalized AO only if each of them read the
\* record sheet before the other one appended; the witness is the interleaving
\* that ends with both rows in the sheet.
C2_DoubleStoreOnlyByRace ==
  \A r1, r2 \in Requests :
    (/\ r1 # r2
     /\ h[r1].appendOrd > 0
     /\ h[r2].appendOrd > 0
     /\ KeyOf(h[r1].row) = KeyOf(h[r2].row))
    => /\ h[r1].readAt < h[r2].appendOrd
       /\ h[r2].readAt < h[r1].appendOrd

\* both requests passed the check and the sheet ends with both rows
C2_Witness ==
  \E r1, r2 \in Requests :
    /\ r1 # r2
    /\ Finished(h[r1]) /\ h[r1].outcome = "PERSISTED"
    /\ Finished(h[r2]) /\ h[r2].outcome = "PERSISTED"
    /\ KeyOf(h[r1].row) = KeyOf(h[r2].row)
    /\ \E i, j \in 2..Len(rekapan) :
         i # j /\ rekapan[i] = h[r1].row /\ rekapan[j] = h[r2].row

\* C3: a submission that passed validation and read the record sheet is
\* rejected as duplicate, without an append of its own, if and only if a data
\* row of the sheet it read (the header row left out) has an AO equal to the
\* candidate's after both are uppercased and trimmed.
C3_DuplicateIffNormalizedMatch ==
  \A r \in Requests :
    (h[r].cmd = "aktivasi" /\ OkCalls(h[r], "getSheetData", "REKAPAN") # {})
    => /\ (h[r].outcome = "REJECTED_DUPLICATE")
            <=> (trim(toUpperCase(h[r].parsed.ao)) \in DataKeys(h[r].data))
       /\ h[r].outcome = "REJECTED_DUPLICATE"
            => /\ CallsOf(h[r], "appendSheetData", "REKAPAN") = {}
               /\ h[r].appendOrd = 0

\* "sc123456" rejected against the stored "SC123456 ", and "AO" stored
\* although the header row carries it
C3_Witness ==
  \E r1, r2 \in Requests :
    /\ h[r1].outcome = "REJECTED_DUPLICATE"
    /\ h[r1].parsed.ao = sc123456
    /\ \E i \in 2..Len(h[r1].data) : Cell(h[r1].data[i], 1) = SC123456blank
    /\ h[r2].outcome = "PERSISTED"
    /\ h[r2].parsed.ao = sAO
    /\ Cell(h[r2].data[1], 1) = sAO

OkAppends ==
  UNION {{<<r, i>> : i \in OkCalls(h[r], "appendSheetData", "REKAPAN")} : r \in Requests}

\* C5: an /aktivasi request calls the append at most once; one that reaches
\* PERSISTED has made exactly one successful append, of the row of 12 columns
\* (date, AO, workorder, service no, customer name, owner, workzone, SN ONT,
\* NIK ONT, STB ID, NIK STB, technician), which put that one row behind the
\* last row of the sheet; a request that ends in REJECTED_INCOMPLETE or
\* REJECTED_DUPLICATE, or whose sender is no active user, has made none.
C5_AtMostOneAppend ==
  /\ [](\A r \in Requests :
          h[r].cmd = "aktivasi"
          => /\ Cardinality(CallsOf(h[r], "appendSheetData", "REKAPAN")) <= 1
             /\ h[r].outcome = "PERSISTED"
                  => /\ Cardinality(OkCalls(h[r], "appendSheetData", "REKAPAN")) = 1
                     /\ Len(h[r].row) = 12
                     /\ h[r].row = <<<<"S", "e", "n", "i", "n", ",", " ", "1", " ", "S", "e", "p", "t", "e", "m", "b", "e", "r", " ", "2", "0", "2", "5">>,
                                     h[r].parsed.ao,
                                     h[r].parsed.workorder, h[r].parsed.serviceNo,
                                     h[r].parsed.customerName, h[r].parsed.owner,
                                     h[r].parsed.workzone, h[r].parsed.snOnt,
                                     h[r].parsed.nikOnt, h[r].parsed.stbId,
                                     h[r].parsed.nikStb, h[r].parsed.teknisi>>
             /\ h[r].outcome \in {"REJECTED_INCOMPLETE", "REJECTED_DUPLICATE",
                                   "NOT_ACTIVE"}
                  => CallsOf(h[r], "appendSheetData", "REKAPAN") = {})
  /\ [](Len(rekapan) = baseLen + Cardinality(OkAppends))
  /\ [][\A r \in Requests :
          (h[r].outcome # "PERSISTED" /\ h'[r].outcome = "PERSISTED")
          => rekapan' = Append(rekapan, h'[r].row)]_vars

\* one request stored its row, the request of a sender who is no active user
\* stored none
C5_Witness ==
  \E r1, r2 \in Requests :
    /\ Finished(h[r1]) /\ h[r1].outcome = "PERSISTED"
    /\ Finished(h[r2]) /\ h[r2].outcome = "NOT_ACTIVE"
    /\ Len(rekapan) = baseLen + 1
    /\ rekapan[Len(rekapan)] = h[r1].row

\* C6: when the read of the record sheet for the duplicate check or the
\* append fails, the request is aborted: the append is not called again (and
\* not at all after a failed read), no append of this request succeeded, the
\* confirmation is never sent, and sendTelegram is called with the generic
\* system-error message.
C6_StoreFailureAborts ==
  \A r \in Requests :
    (/\ h[r].cmd = "aktivasi"
     /\ FailedCalls(h[r], "getSheetData", "REKAPAN")
          \cup FailedCalls(h[r], "appendSheetData", "REKAPAN") # {})
    => /\ Cardinality(CallsOf(h[r], "appendSheetData", "REKAPAN")) <= 1
       /\ FailedCalls(h[r], "getSheetData", "REKAPAN") # {}
            => CallsOf(h[r], "appendSheetData", "REKAPAN") = {}
       /\ OkCalls(h[r], "appendSheetData", "REKAPAN") = {}
       /\ h[r].appendOrd = 0
       /\ ~Sent(h[r], "confirm")
       /\ Sent(h[r], "systemError")

\* one request aborted by a failed read, another one by a failed append
C6_Witness ==
  \E r1, r2 \in Requests :
    /\ h[r1].cmd = "aktivasi" /\ Finished(h[r1])
    /\ FailedCalls(h[r1], "getSheetData", "REKAPAN") # {}
    /\ h[r2].cmd = "aktivasi" /\ Finished(h[r2])
    /\ FailedCalls(h[r2], "appendSheetData", "REKAPAN") # {}
    /\ Len(rekapan) = baseLen

\* C7: a request for which sendTelegram was called with the generic
\* system-error message has committed nothing: no append and no overwrite of
\* the record sheet by it has succeeded.
C7_ErrorMeansNothingCommitted ==
  \A r \in Requests :
    Sent(h[r], "systemError")
    => /\ OkCalls(h[r], "appendSheetData", "REKAPAN") = {}
       /\ OkCalls(h[r], "updateSheetData", "REKAPAN") = {}
       /\ h[r].appendOrd = 0

\* one request got the system-error message after its file delivery failed;
\* another one stored its row, the delivery of its confirmation failed, and
\* no system-error message followed
C7_Witness ==
  \E r1, r2 \in Requests :
    /\ Finished(h[r1]) /\ Sent(h[r1], "systemError")
    /\ FailedCalls(h[r1], "sendCSVFile", "chat") # {}
    /\ h[r2].pc = "failed" /\ h[r2].outcome = "PERSISTED"
    /\ FailedCalls(h[r2], "sendTelegram", "confirm") # {}
    /\ ~Sent(h[r2], "systemError")

\* C8: when the read of the USER sheet fails while the sender is looked up,
\* the request is answered with the generic system-error message, and neither
\* with "not registered as active user" nor with "access denied".
C8_LookupFailureSurfaced ==
  \A r \in Requests :
    FailedCalls(h[r], "getSheetData", "USER") # {}
    => /\ Sent(h[r], "systemError")
       /\ ~Sent(h[r], "notActive")
       /\ ~Sent(h[r], "denied")

TselMarkers == {<<"C", "H", "A", "N", "N", "E", "L", " ", ":", " ", "D", "I", "G", "I", "P", "O", "S">>, <<"D", "A", "T", "E", " ", "C", "R", "E", "A", "T", "E", "D">>, <<"W", "O", "R", "K", "O", "R", "D", "E", "R", " ", ":", " ", "W", "O">>}

BgesMarkers == {<<"I", "N", "D", "I", "B", "I", "Z">>, <<"H", "S", "I">>}

WmsMarkers == {sWMS, <<"M", "W", "S">>}

\* the text contains, in any case, one of the markers
Contains(text, markers) == \E m \in markers : includes(toUpperCase(text), m)

\* a record without the technician, which the sender's row provides
Extracted(record) == [record EXCEPT !.teknisi = <<>>]

\* C9: the owner detected in a text is exactly one of TSEL, BGES, WMS and
\* the empty owner of the label-based fallback: TSEL for a text that contains
\* "CHANNEL : DIGIPOS", "DATE CREATED" or "WORKORDER : WO", whatever else it
\* contains; else BGES for one that contains INDIBIZ or HSI; else WMS for one
\* that contains WMS or MWS; else the fallback; and the record is the one that
\* the extraction branch of that owner yields.
C9_ClassificationPriority ==
  ptag # Undefined
  => /\ ptag \in {sTSEL, sBGES, sWMS, <<>>}
     /\ Contains(ptext, TselMarkers) => ptag = sTSEL
     /\ (~Contains(ptext, TselMarkers) /\ Contains(ptext, BgesMarkers))
          => ptag = sBGES
     /\ (~Contains(ptext, TselMarkers) /\ ~Contains(ptext, BgesMarkers)
           /\ Contains(ptext, WmsMarkers))
          => ptag = sWMS
     /\ (~Contains(ptext, TselMarkers) /\ ~Contains(ptext, BgesMarkers)
           /\ ~Contains(ptext, WmsMarkers))
          => ptag = <<>>
     /\ ptag = sTSEL => Extracted(precord) = parseTSEL(ptext)
     /\ ptag = sBGES => Extracted(precord) = parseBGESWMS(ptext, sBGES)
     /\ ptag = sWMS => Extracted(precord) = parseBGESWMS(ptext, sWMS)
     /\ ptag = <<>> => Extracted(precord) = parseManual(ptext)

\* a text with a TSEL marker and INDIBIZ, extracted by the TSEL branch
C9_Witness ==
  /\ ptag = sTSEL
  /\ Contains(ptext, TselMarkers)
  /\ Contains(ptext, BgesMarkers)
  /\ precord.owner = sTSEL

\* C10: in every row that /aktivasi stored, whatever the owner, a non-empty
\* NIK STB comes with a non-empty STB ID.
C10_NikStbImpliesStbId ==
  \A r \in Requests :
    h[r].outcome = "PERSISTED"
    => (Cell(h[r].row, 10) # <<>> => Cell(h[r].row, 9) # <<>>)

\* a non-empty run of letters and digits, the value that ([A-Za-z0-9]+) takes
IsToken(value) == value # <<>> /\ \A i \in 1..Len(value) : value[i] \in Alnum

\* C11: for a text classified TSEL whose AO field has the value X, the
\* extraction yields the reference id X, and the work order X when the text
\* has no WORKORDER field, or W when it has a WORKORDER field of value W; the
\* row built from the record carries them in its AO and WORKORDER columns.
C11_TselWorkorderFallsBackToAo ==
  (ptag = sTSEL /\ IsToken(getValue(ptext, sAO)))
  => /\ precord.ao = getValue(ptext, sAO)
     /\ Cell(rowOf(precord), 1) = getValue(ptext, sAO)
     /\ ~includes(toUpperCase(ptext), sWORKORDER)
          => /\ precord.workorder = getValue(ptext, sAO)
             /\ Cell(rowOf(precord), 2) = getValue(ptext, sAO)
     /\ IsToken(getValue(ptext, sWORKORDER))
          => /\ precord.workorder = getValue(ptext, sWORKORDER)
             /\ Cell(rowOf(precord), 2) = getValue(ptext, sWORKORDER)

\* the text with AO : SC000111 and no WORKORDER field, extracted as TSEL
C11_Witness ==
  /\ ptag = sTSEL
  /\ getValue(ptext, sAO) = <<"S", "C", "0", "0", "0", "1", "1", "1">>
  /\ ~includes(toUpperCase(ptext), sWORKORDER)
  /\ precord.snOnt # <<>>
  /\ precord.nikOnt # <<>>
  /\ Cell(rowOf(precord), 1) = <<"S", "C", "0", "0", "0", "1", "1", "1">>
  /\ Cell(rowOf(precord), 2) = <<"S", "C", "0", "0", "0", "1", "1", "1">>

\* the words of a line, and the lines of a text as they were written
Words(line) == split(line, " ")

IsDigits(word) == word # <<>> /\ \A i \in 1..Len(word) : word[i] \in Digits

\* what one line of a carrier log contributes: "AO| <ZONE> SC<digits> ..."
\* the zone and the reference id, "<DD/MM/YYYY> <HH:MM> <n> <NAME>  ..." the
\* customer name, and a word of 11 or 12 digits the service number
AoIn(line) ==
  IF Len(Words(line)) >= 3 /\ Words(line)[1] = <<"A", "O", "|">>
       /\ startsWith(Words(line)[3], sSC) /\ Len(Words(line)[3]) >= 8
       /\ IsDigits(SubSeq(Words(line)[3], 3, Len(Words(line)[3])))
    THEN Words(line)[3] ELSE <<>>

ZoneIn(line) ==
  IF Len(Words(line)) >= 2 /\ Words(line)[1] = <<"A", "O", "|">>
       /\ Len(Words(line)[2]) >= 2
       /\ \A i \in 1..Len(Words(line)[2]) : Words(line)[2][i] \in Uppers
    THEN Words(line)[2] ELSE <<>>

ServiceIn(line) ==
  IF \E i \in 1..Len(Words(line)) :
       IsDigits(Words(line)[i]) /\ Len(Words(line)[i]) \in {11, 12}
    THEN Words(line)[CHOOSE i \in 1..Len(Words(line)) :
                       IsDigits(Words(line)[i]) /\ Len(Words(line)[i]) \in {11, 12}]
    ELSE <<>>

CustomerIn(line) ==
  IF Len(Words(line)) >= 6 /\ Len(Words(line)[1]) = 10
       /\ Words(line)[1][3] = "/" /\ Words(line)[1][6] = "/"
       /\ Len(Words(line)[2]) = 5 /\ Words(line)[2][3] = ":"
       /\ IsDigits(Words(line)[3]) /\ Words(line)[5] = <<>>
    THEN Words(line)[4] ELSE <<>>

\* the positions of the lines that contribute a value
AoLines(text) == {i \in 1..Len(split(text, "\n")) : AoIn(split(text, "\n")[i]) # <<>>}

ZoneLines(text) == {i \in 1..Len(split(text, "\n")) : ZoneIn(split(text, "\n")[i]) # <<>>}

ServiceLines(text) ==
  {i \in 1..Len(split(text, "\n")) : ServiceIn(split(text, "\n")[i]) # <<>>}

CustomerLines(text) ==
  {i \in 1..Len(split(text, "\n")) : CustomerIn(split(text, "\n")[i]) # <<>>}

LastLine(positions) == CHOOSE i \in positions : \A j \in positions : j <= i

FirstLine(positions) == CHOOSE i \in positions : \A j \in positions : i <= j

\* C12: for a text classified BGES or WMS, the reference id and the work
\* order are those of the last "AO| ... SC<6+ digits>" line, the service
\* number is the last word of 11 or 12 digits, the work zone is that of the
\* last "AO| <UPPERCASE WORD>" line, and the customer name is that of the
\* first "date time count NAME" line; each is empty when no line has it.
C12_LastMatchButFirstCustomer ==
  ptag \in {sBGES, sWMS}
  => /\ precord.ao =
          IF AoLines(ptext) = {} THEN <<>>
          ELSE AoIn(split(ptext, "\n")[LastLine(AoLines(ptext))])
     /\ precord.workorder = precord.ao
     /\ precord.serviceNo =
          IF ServiceLines(ptext) = {} THEN <<>>
          ELSE ServiceIn(split(ptext, "\n")[LastLine(ServiceLines(ptext))])
     /\ precord.workzone =
          IF ZoneLines(ptext) = {} THEN <<>>
          ELSE ZoneIn(split(ptext, "\n")[LastLine(ZoneLines(ptext))])
     /\ precord.customerName =
          IF CustomerLines(ptext) = {} THEN <<>>
          ELSE CustomerIn(split(ptext, "\n")[FirstLine(CustomerLines(ptext))])

\* two AO lines of different ids and zones and one customer line: the second
\* id and zone and that customer name
C12_Witness ==
  /\ ptag = sBGES
  /\ Cardinality(AoLines(ptext)) = 2
  /\ Cardinality(CustomerLines(ptext)) = 1
  /\ AoIn(split(ptext, "\n")[FirstLine(AoLines(ptext))]) # precord.ao
  /\ precord.ao = <<"S", "C", "1", "1", "1", "1", "1", "1", "1">>
  /\ precord.workorder = <<"S", "C", "1", "1", "1", "1", "1", "1", "1">>
  /\ precord.workzone = <<"B", "I", "N", "J", "A", "I">>
  /\ precord.customerName = <<"B", "U", "D", "I">>

\* the labels of the documented manual format
ManualLabels ==
  {sAO, sWORKORDER, <<"S", "E", "R", "V", "I", "C", "E", " ", "N", "O">>,
   <<"C", "U", "S", "T", "O", "M", "E", "R", " ", "N", "A", "M", "E">>,
   sOWNER, sWORKZONE, <<"S", "N", " ", "O", "N", "T">>,
   <<"N", "I", "K", " ", "O", "N", "T">>, <<"S", "T", "B", " ", "I", "D">>,
   <<"N", "I", "K", " ", "S", "T", "B">>}

\* every line of the text is "<LABEL> : value" with a label of the format
IsManualFormat(text) ==
  \A i \in 1..Len(split(text, "\n")) :
    \E label \in ManualLabels :
      startsWith(toUpperCase(split(text, "\n")[i]), label \o <<" ", ":", " ">>)

\* C13: a submission in the manual format that has a line "AO : X" with X
\* not empty yields the reference id X, whatever the values of its other
\* lines, and is not rejected as incomplete.
C13_ManualAoAlwaysExtracted ==
  (ptag # Undefined /\ IsManualFormat(ptext) /\ getValue(ptext, sAO) # <<>>)
  => /\ precord.ao = getValue(ptext, sAO)
     /\ missingOf(precord) = <<>>

\* the extraction ended with a row that the handler appends
RowBuilt ==
  \/ ptag = <<"stored">>
  \/ ptag \in {sTSEL, sBGES, sWMS, <<>>} /\ missingOf(precord) = <<>>

\* C14: in every row that /aktivasi builds for the store, the technician is
\* the handle of the sender's row of the user sheet without its "@",
\* whatever the text contains, a "TEKNISI : ..." line included.
C14_TeknisiFromUserStore ==
  RowBuilt => Cell(rowOf(precord), 11) = replaceFirst(Cell(users[2], 1), "@")

\* the rows of the sheet behind the header
DataRows == SubSeq(rekapan, 2, Len(rekapan))

WeekdayNames ==
  {<<"s", "e", "n", "i", "n", ",">>, <<"s", "e", "l", "a", "s", "a", ",">>,
   <<"r", "a", "b", "u", ",">>, <<"k", "a", "m", "i", "s", ",">>,
   <<"j", "u", "m", "a", "t", ",">>, <<"s", "a", "b", "t", "u", ",">>,
   <<"m", "i", "n", "g", "g", "u", ",">>}

MonthNames ==
  {<<"j", "a", "n", "u", "a", "r", "i">>, <<"f", "e", "b", "r", "u", "a", "r", "i">>,
   <<"m", "a", "r", "e", "t">>, <<"a", "p", "r", "i", "l">>, <<"m", "e", "i">>,
   <<"j", "u", "n", "i">>, <<"j", "u", "l", "i">>,
   <<"a", "g", "u", "s", "t", "u", "s">>,
   <<"s", "e", "p", "t", "e", "m", "b", "e", "r">>,
   <<"o", "k", "t", "o", "b", "e", "r">>, <<"n", "o", "v", "e", "m", "b", "e", "r">>,
   <<"d", "e", "s", "e", "m", "b", "e", "r">>}

\* a stored date of fewer than four tokens, or whose weekday or month is
\* not a name of the lexicon
Malformed(date) ==
  \/ Len(split(toLowerCase(date), " ")) < 4
  \/ split(toLowerCase(date), " ")[1] \notin WeekdayNames
  \/ split(toLowerCase(date), " ")[3] \notin MonthNames

Periods == {"daily", "weekly", "monthly"}

\* C15: a row whose stored date is malformed is in no result of the period
\* filter, for daily, weekly and monthly and every anchor, and the filter
\* ends with a result on a sheet that has such rows.
C15_MalformedDateExcluded ==
  (rep.done /\ rep.period \in Periods)
  => \A i \in 1..Len(rep.filtered) : ~Malformed(rep.filtered[i][1])

\* the custom dates of the requests in which the date pattern finds no match
Unmatched == {<<"f", "o", "o">>, <<"2", "0", "2", "5", "-", "0", "9", "-", "1", "5">>}

\* C16: with a custom date in which the pattern finds no match, the daily,
\* weekly and monthly results are those of the same request without a
\* custom date, whose anchor is now.
C16_UnmatchedAnchorFallsBackToNow ==
  (rep.done /\ rep.period \in Periods /\ rep.customDate \in Unmatched)
  => rep.filtered = filterDataByPeriod(rekapan, rep.period, <<>>, rep.now, rep.tz)

DayOfRow(row) == parseIndonesianDate(row[1])[1] \div 1440

\* the requests with an anchor: the local day of now, or of the custom date
HasAnchor == rep.customDate = <<>> \/ rep.customDate \notin Unmatched

AnchorDay ==
  IF rep.customDate = <<>> THEN (rep.now + rep.tz) \div 1440
  ELSE anchorDay(rep.customDate)[1]

\* the rows whose stored date parses to a calendar day from first to last
RowsDated(first, last) ==
  SelectSeq(DataRows,
    LAMBDA row : /\ row[1] # <<>>
                 /\ parseIndonesianDate(row[1]) # <<>>
                 /\ first <= DayOfRow(row)
                 /\ DayOfRow(row) <= last)

\* the Monday on or before a day: the day minus ((dayOfWeek + 6) mod 7)
MondayOf(day) == day - ((((day + 4) % 7) + 6) % 7)

\* C18: the weekly result is the rows with a date that parses from the
\* Monday on or before the anchor to the Sunday six days later, a week that
\* contains the anchor; for the anchor 2025-09-15 it is 2025-09-15 to
\* 2025-09-21.
C18_WeeklyWindowMondayToSunday ==
  (rep.done /\ rep.period = "weekly" /\ HasAnchor)
  => /\ MondayOf(AnchorDay) <= AnchorDay
     /\ AnchorDay <= MondayOf(AnchorDay) + 6
     /\ rep.filtered = RowsDated(MondayOf(AnchorDay), MondayOf(AnchorDay) + 6)
     /\ AnchorDay = DayNumber(2025, 8, 15)
          => rep.filtered = RowsDated(DayNumber(2025, 8, 15), DayNumber(2025, 8, 21))

\* C19: the monthly result is the rows with a date that parses from the
\* first to the last day of the month of the anchor, the daily result the
\* rows dated on the day of the anchor; no row of the day before or of the
\* day after is in either.
C19_MonthlyAndDailyWindows ==
  /\ (rep.done /\ rep.period = "monthly" /\ HasAnchor)
       => rep.filtered =
            RowsDated(DayNumber(MonthOf(AnchorDay)[1], MonthOf(AnchorDay)[2], 1),
                      DayNumber(MonthOf(AnchorDay)[1], MonthOf(AnchorDay)[2] + 1, 1) - 1)
  /\ (rep.done /\ rep.period = "daily" /\ HasAnchor)
       => rep.filtered = RowsDated(AnchorDay, AnchorDay)

\* the key of a row in the tally of a column, and its first row
TallyKey(row, column) == toUpperCase(OrElse(Cell(row, column), <<"-">>))

FirstRowOf(key, column) ==
  CHOOSE i \in 1..Len(rep.filtered) :
    /\ TallyKey(rep.filtered[i], column) = key
    /\ \A o \in 1..(i - 1) : TallyKey(rep.filtered[o], column) # key

\* a ranking lists the keys of the rows with their counts, greater counts
\* first and, among equal counts, the key met first in the rows first
Ranked(ranking, column) ==
  /\ {ranking[p][1] : p \in 1..Len(ranking)}
       = {TallyKey(rep.filtered[i], column) : i \in 1..Len(rep.filtered)}
  /\ \A p \in 1..Len(ranking) :
       ranking[p][2] = Cardinality({i \in 1..Len(rep.filtered) :
                                      TallyKey(rep.filtered[i], column) = ranking[p][1]})
  /\ \A p, q \in 1..Len(ranking) :
       p < q => \/ ranking[p][2] > ranking[q][2]
                \/ /\ ranking[p][2] = ranking[q][2]
                   /\ FirstRowOf(ranking[p][1], column) < FirstRowOf(ranking[q][1], column)

\* C20: the rankings by technician, by work zone and by owner list the
\* groups by descending count, groups of equal count in the order in which
\* their keys were first met in the rows.
C20_RankedByCountThenEncounter ==
  rep.done => /\ Ranked(rep.teknisi, 11)
              /\ Ranked(rep.workzone, 6)
              /\ Ranked(rep.owner, 5)

\* the handle of a technician as /cari and /<username> compare it
HandleOf(teknisi) == toLowerCase(replaceFirst(teknisi, "@"))

\* C21: in the ranking by technician of a report, rows whose technicians
\* differ only in letter case or by a leading "@" are counted under one
\* entry: no two entries of the ranking have the same handle.
C21_HandlesTalliedTogether ==
  rep.done => \A p, q \in 1..Len(rep.teknisi) :
                HandleOf(rep.teknisi[p][1]) = HandleOf(rep.teknisi[q][1]) => p = q

\* a row of the user sheet has the handle of the username, ignoring case
\* and "@", the status AKTIF and one of the roles
Resolves(username, roles) ==
  \E i \in 2..Len(users) :
    /\ HandleOf(Cell(users[i], 1)) = HandleOf(username)
    /\ toUpperCase(Cell(users[i], 3)) = <<"A", "K", "T", "I", "F">>
    /\ toUpperCase(Cell(users[i], 2)) \in roles

\* the calls of a handler that read or write the record sheet
StoreCalls(hr) ==
  {i \in 1..Len(hr.calls) : hr.calls[i].target = "REKAPAN"}

C23_RequiredFields ==
  /\ ptag = <<"stored">> => precord.snOnt # <<>> /\ precord.nikOnt # <<>>
  /\ (/\ ptag \in {<<"error">>, <<"incomplete">>, <<"stored">>}
      /\ \/ legacyRecord(linesOf(ptext), <<>>).snOnt = <<>>
         \/ legacyRecord(linesOf(ptext), <<>>).nikOnt = <<>>)
       => ptag = <<"incomplete">>
  /\ \A r \in Requests :
       (h[r].cmd = "aktivasi" /\ h[r].user # Null /\ inputTextOf(h[r].msg.text) # <<>>)
       => /\ CallsOf(h[r], "appendSheetData", "REKAPAN") # {} => h[r].parsed.ao # <<>>
          /\ h[r].parsed.ao = <<>> => h[r].outcome = "REJECTED_INCOMPLETE"
          /\ h[r].parsed.ao # <<>> => h[r].outcome # "REJECTED_INCOMPLETE"

\* the header and the data rows with an AO that no earlier data row has,
\* compared in upper case and trimmed, in their order
FirstOccurrences(data) ==
  LET Keep == {i \in 2..Len(data) :
                 /\ KeyOf(data[i]) # <<>>
                 /\ \A j \in 2..(i - 1) : KeyOf(data[j]) # KeyOf(data[i])}
  IN  <<data[1]>> \o [p \in 1..Cardinality(Keep) |->
                        data[CHOOSE i \in Keep : Cardinality({j \in Keep : j < i}) = p - 1]]

\* C24: once /clear has answered that N duplicates were removed, the record
\* sheet is the header and the first row of every non-empty AO of the rows
\* read, in their order: N rows fewer, no AO twice and no row without AO.
C24_ClearLeavesFirstOccurrences ==
  \A r \in Requests :
    (h[r].cmd = "clear" /\ Sent(h[r], "cleared"))
    => /\ rekapan = FirstOccurrences(h[r].data)
       /\ Len(rekapan) = Len(h[r].data) - h[r].reply.arg[1]
       /\ \A i, j \in 2..Len(rekapan) : KeyOf(rekapan[i]) = KeyOf(rekapan[j]) => i = j
       /\ \A i \in 2..Len(rekapan) : KeyOf(rekapan[i]) # <<>>

\* C25: a row stored at the instant of a daily report without custom date,
\* its date the one getTodayDateString gives at that instant, is in the
\* result of the report, at every time of day and for every offset of the
\* host.
C25_StoredNowIsInDailyReport ==
  (rep.done /\ rep.period = "daily" /\ rep.customDate = <<>>)
  => \A i \in 2..Len(rekapan) :
       rekapan[i][1] = getTodayDateString(rep.now)
       => \E k \in 1..Len(rep.filtered) : rep.filtered[k] = rekapan[i]

\* the commands that change a sheet
WritePath == {"aktivasi", "clear"}

\* C26: the user sheet never changes; a step of a handler of /ps, /weekly,
\* /monthly, /topteknisi, /allps, /cari, /exportcari, /<username>, /help,
\* /start or an unknown command leaves the record sheet as it is, whatever
\* its outcome, and such a handler never calls the append or the overwrite;
\* the record sheet changes only in a step of an /aktivasi or a /clear.
C26_ReadPathLeavesStores ==
  /\ [](\A r \in Requests :
          h[r].cmd \notin WritePath
          => /\ CallsOf(h[r], "appendSheetData", "REKAPAN") = {}
             /\ CallsOf(h[r], "updateSheetData", "REKAPAN") = {})
  /\ [][/\ users' = users
        /\ \A r \in Requests :
             (h'[r] # h[r] /\ h[r].pc # "idle" /\ h[r].cmd \notin WritePath)
             => rekapan' = rekapan
        /\ rekapan' # rekapan
             => \E r \in Requests : h'[r] # h[r] /\ h[r].cmd \in WritePath]_vars

\* /exportcari of bob read the rows, the delivery of the file failed and the
\* error was answered: the sheet is as it was read
C26_Witness ==
  /\ h[1].cmd = "exportcari"
  /\ FailedCalls(h[1], "sendCSVFile", "chat") # {}
  /\ Sent(h[1], "systemError")
  /\ h[1].pc = "done"
  /\ Len(rekapan) > 1
  /\ rekapan = h[1].data

\* the texts "/h" of the handles h of letters, digits and underscores, and
\* the names of the commands among them
IsHandleCommand(text) ==
  /\ Len(text) > 1
  /\ text[1] = "/"
  /\ \A i \in 2..Len(text) : text[i] \in WordChars

CommandNames ==
  {cmdPs, cmdWeekly, cmdMonthly, cmdTopteknisi, cmdAllps, cmdCari, cmdExportcari,
   cmdClear, cmdAktivasi, cmdHelp, cmdStart}

\* C27: a "/h" of an admin in a private chat, h a handle that is not the
\* name of a command, is taken as the command for the statistics of a
\* technician; when the reads of the two sheets succeed, the answer is the
\* count of the rows read whose technician is h, ignoring case and "@",
\* with the rankings of their owners and work zones, whose counts add up to
\* it.
C27_HandleCommandGivesStatistics ==
  \A r \in Requests :
    (/\ h[r].pc # "idle"
     /\ h[r].msg.chatType = "private"
     /\ IsHandleCommand(h[r].msg.text)
     /\ toLowerCase(h[r].msg.text) \notin CommandNames
     /\ Resolves(h[r].msg.username, {<<"A", "D", "M", "I", "N">>}))
    => /\ h[r].cmd = "username"
       /\ ~Sent(h[r], "unknown")
       /\ OkCalls(h[r], "getSheetData", "REKAPAN") # {}
            => /\ h[r].reply.kind = "teknisiStats"
               /\ h[r].reply.arg[1]
                    = Cardinality({i \in 2..Len(h[r].data) :
                                     HandleOf(Cell(h[r].data[i], 11))
                                       = toLowerCase(Tail(h[r].msg.text))})
               /\ \A k \in {2, 3} :
                    \/ h[r].reply.arg[1] = 0 /\ h[r].reply.arg[k] = <<>>
                    \/ /\ h[r].reply.arg[k] # <<>>
                       /\ h[r].reply.arg[1]
                            = Cardinality({<<i, n>> \in (1..Len(h[r].reply.arg[k])) \X (1..MaxRows) :
                                             n <= h[r].reply.arg[k][i][2]})

=============================================================================
